---- MODULE Spec2Model ----
(***************************************************************************)
(* PathBool.js: Boolean operations on planar vector paths.                 *)
(*                                                                         *)
(* The module models these parts of the library as state machines; a       *)
(* behaviour of Spec is a run of one of them:                              *)
(*   pathBoolean, one action per pipeline stage                            *)
(*   getFlag / the face flag / operationPredicates                         *)
(*   pathFromCommands over toAbsoluteCommands                              *)
(*   pathToCommands                                                        *)
(*   findVertices, one call of its flatMap callback per step               *)
(*                                                                         *)
(* Geometry.  Paths are made of "L" segments whose points are integer      *)
(* lattice points.  On such inputs every floating-point operation of the   *)
(* pipeline that decides a branch is exact, so the integer and rational    *)
(* arithmetic below computes what the code computes.  Intersection         *)
(* parameters are kept as fractions <<n, d>> with d > 0.  The epsilons     *)
(* are kept as the reciprocals of their values and compared exactly.       *)
(* Cubic, quadratic and arc segments occur in pathFromCommands,            *)
(* pathToCommands and findVertices only; their geometry is not modelled.   *)
(***************************************************************************)
EXTENDS Integers, Sequences, FiniteSets, TLC

VARIABLES
    \* ---- pathBoolean(a, aFillRule, b, bFillRule, op) ----
    a, b,                 \* the two input paths (sequences of segments)
    aFillRule, bFillRule, \* "NonZero" | "EvenOdd"; "unread" until flagFaces reads them
    op,                   \* the operation; "unread" until the extraction reads it
    pc,                   \* the pipeline stage that runs next, "done" or "threw"
    splitEdges,           \* result of splitAtIntersections
    totalBoundingBox,     \* <<>> (null) or <<box>>
    majorGraph,           \* result of findVertices
    minorGraph,           \* result of computeMinor, pruned and sorted in place
    dual,                 \* result of computeDual: faces (with flag), half-edges, components
    nestingTrees,         \* result of computeNestingTree
    result,               \* the returned Path[]
    emitted,              \* for dumpFaces: the face each returned path was built for
    selectedFaces,        \* for walkFaces: the Set of selected faces, in insertion order
    thrown,               \* message of the error thrown, "" if none
    \* ---- getFlag / face flag unit ----
    fpc,                  \* "visitFace", "predicate", "done"; "idle" when not used
    aCount, bCount,       \* aRunningCount, bRunningCount of one visitFace call
    fRuleA, fRuleB,       \* aFillRule, bFillRule of the flagFaces call
    fFlag,                \* face.flag as visitFace sets it
    fOp, fSelected,       \* an operation and what its predicate says of the face
    \* ---- pathFromCommands ----
    commands,             \* the commands taken from the iterable so far
    absLastPoint, absFirstPoint, \* lastPoint and firstPoint of toAbsoluteCommands
    firstPoint, lastPoint, lastControlPoint, \* of pathFromCommands; <<>> is null
    segments,             \* the segments yielded so far
    cmdStatus,            \* "running", "done", "threw"; "idle" when not called
    \* ---- pathToCommands(segments, eps) ----
    toSegments,           \* the segments taken from the iterable so far
    toEps,                \* eps, in the unit of the coordinates
    toLastPoint,          \* lastPoint; <<>> is null
    toCommands,           \* the commands yielded so far
    toStatus,             \* "running", "done"; "idle" when not called
    \* ---- findVertices(edges), one edge of any kind at a time ----
    fvGraph,              \* newVertices and newEdges so far
    fvEdge,               \* the edge the flatMap callback ran for last; <<>> before
    fvDiscarded,          \* whether it returned [] as a zero-length segment
    fvStatus,             \* "running", "done"; "idle" when not called
    \* ---- one call of a function of the library ----
    fn,                   \* the function called; "none" when none is
    args,                 \* its arguments
    ret,                  \* what it returned; <<>> before it returns
    callStatus,           \* "called", "returned"; "idle" when none is called
    \* ---- a QuadTree under insert and find ----
    qtTree,               \* the tree; <<>> when there is none
    qtInserts,            \* history: the insert calls, [boundingBox, value, accepted]
    qtFound,              \* <<[boundingBox, set]>> of the last find; <<>> after an insert
    \* ---- splitAtIntersections, edge by edge, with its edgeTree ----
    withBoundingBox,      \* the edges; <<>> when not called
    edgeTree,             \* the QuadTree of the edges inserted so far; <<>> when not called
    probeIndex,           \* the edge the first loop is at, from 1; 0 when not called
    splitsPerEdge,        \* splitsPerEdge[i]: the parameters recorded for edge i
    tested,               \* history: the pairs <<i, j>> given to pathSegmentIntersection
    newEdges,             \* <<the edges returned>>; <<>> before the function returns
    \* ---- commandsFromPathData ----
    pathData,             \* d, a sequence of characters; <<>> when not called
    dataIndex,            \* i, counted from 0
    lastCmd,              \* lastCmd
    parsed,               \* history: [command, from, to, letter] for every yield
    parseStatus           \* "running", "done", "threw"; "idle" when not called

boolVars == <<a, b, aFillRule, bFillRule, op, pc, splitEdges, totalBoundingBox,
              majorGraph, minorGraph, dual, nestingTrees, result,
              emitted, selectedFaces, thrown>>
flagVars == <<fpc, aCount, bCount, fRuleA, fRuleB, fFlag, fOp, fSelected>>
cmdVars  == <<commands, absLastPoint, absFirstPoint, firstPoint, lastPoint,
              lastControlPoint, segments, cmdStatus>>
toVars   == <<toSegments, toEps, toLastPoint, toCommands, toStatus>>
fvVars == <<fvGraph, fvEdge, fvDiscarded, fvStatus>>
callVars == <<fn, args, ret, callStatus>>
qtVars == <<qtTree, qtInserts, qtFound>>
pairVars == <<withBoundingBox, edgeTree, probeIndex, splitsPerEdge, tested, newEdges>>
dataVars == <<pathData, dataIndex, lastCmd, parsed, parseStatus>>
vars == <<boolVars, flagVars, cmdVars, toVars, fvVars, callVars, qtVars, pairVars, dataVars>>

(***************************************************************************)
(* Small helpers                                                           *)
(***************************************************************************)
Min(x, y) == IF x <= y THEN x ELSE y
Max(x, y) == IF x >= y THEN x ELSE y
Abs(x) == IF x < 0 THEN -x ELSE x
Range(s) == {s[i] : i \in 1..Len(s)}

\* Strict(x, e) is e, and Let(x, F) is F(x): "let x be this value in F".  TLC
\* passes operator arguments unevaluated; the test in Strict makes it compute x
\* once, before it goes on in e.
Strict(x, e) == IF x = x THEN e ELSE e
Let(x, F(_)) == Strict(x, F(x))

RECURSIVE Gcd(_, _)
Gcd(x, y) == IF y = 0 THEN x ELSE Gcd(y, x % y)

\* A fraction n/d, reduced, with d > 0.
Rat(n, d) ==
    LET s == IF d < 0 THEN -1 ELSE 1
        g == Gcd(Abs(n), Abs(d))
    IN  <<(s * n) \div g, (s * d) \div g>>
\* common factors are taken out before the products, which keeps them small
RatSub(x, y) ==
    LET g == Gcd(x[2], y[2])
    IN  Rat(x[1] * (y[2] \div g) - y[1] * (x[2] \div g), (x[2] \div g) * y[2])
RatDiv(x, y) ==
    LET g == Gcd(Abs(x[1]), Abs(y[1]))
        h == Gcd(x[2], y[2])
    IN  Rat((x[1] \div g) * (y[2] \div h), (x[2] \div h) * (y[1] \div g))
RatLess(x, y) == RatSub(x, y)[1] < 0
RatAdd(x, y) == RatSub(x, <<-y[1], y[2]>>)
RatMul(x, y) == IF y[1] = 0 THEN <<0, 1>> ELSE RatDiv(x, <<y[2], y[1]>>)
RatOne == <<1, 1>>
RatZero == <<0, 1>>

\* x < 1/E and x > 1/E for a fraction x = <<p, q>>, q > 0, without forming p * E.
LtEps(x, E) == x[1] <= (x[2] - 1) \div E
GtEps(x, E) == x[1] > x[2] \div E

\* EPS of path-boolean.ts, as reciprocals: point = 1e-6, linear = 1e-4, param = 1e-8.
EpsPointInv == 1000000
EpsLinearInv == 10000
EpsParamInv == 100000000

(***************************************************************************)
(* Segments (primitives/PathSegment.ts), vectors, boxes                    *)
(***************************************************************************)
\* A segment ["L", p0, p1] is the tuple <<"L", p0, p1>>: seg[k] of the source is
\* seg[k + 1] here.  The stages after findVertices are modelled for lines.
getStartPoint(seg) == seg[2]
getEndPoint(seg) ==
    CASE seg[1] = "L" -> seg[3]
      [] seg[1] = "C" -> seg[5]
      [] seg[1] = "Q" -> seg[4]
      [] seg[1] = "A" -> seg[8]
reversePathSegment(seg) == <<"L", seg[3], seg[2]>>

\* Math.abs(a[0]-b[0]) < eps && Math.abs(a[1]-b[1]) < eps, eps = 1/epsInv
vectorsEqual(p, q, epsInv) ==
    /\ LtEps(<<Abs(p[1] - q[1]), 1>>, epsInv)
    /\ LtEps(<<Abs(p[2] - q[2]), 1>>, epsInv)

segmentsEqual(seg0, seg1, epsInv) ==
    /\ seg1[1] = seg0[1]
    /\ CASE seg0[1] = "L" ->
              /\ vectorsEqual(seg0[2], seg1[2], epsInv)
              /\ vectorsEqual(seg0[3], seg1[3], epsInv)
         [] seg0[1] = "C" ->
              /\ vectorsEqual(seg0[2], seg1[2], epsInv)
              /\ vectorsEqual(seg0[3], seg1[3], epsInv)
              /\ vectorsEqual(seg0[4], seg1[4], epsInv)
              /\ vectorsEqual(seg0[5], seg1[5], epsInv)
         [] seg0[1] = "Q" ->
              /\ vectorsEqual(seg0[2], seg1[2], epsInv)
              /\ vectorsEqual(seg0[3], seg1[3], epsInv)
              /\ vectorsEqual(seg0[4], seg1[4], epsInv)
         [] seg0[1] = "A" ->
              /\ vectorsEqual(seg0[2], seg1[2], epsInv)
              /\ LtEps(<<Abs(seg0[3] - seg1[3]), 1>>, epsInv)
              /\ LtEps(<<Abs(seg0[4] - seg1[4]), 1>>, epsInv)
              /\ LtEps(<<Abs(seg0[5] - seg1[5]), 1>>, epsInv)
              /\ seg0[6] = seg1[6]
              /\ seg0[7] = seg1[7]
              /\ vectorsEqual(seg0[8], seg1[8], epsInv)

pathSegmentBoundingBox(seg) ==
    [top    |-> Min(seg[2][2], seg[3][2]),
     right  |-> Max(seg[2][1], seg[3][1]),
     bottom |-> Max(seg[2][2], seg[3][2]),
     left   |-> Min(seg[2][1], seg[3][1])]

boundingBoxesOverlap(x, y) ==
    /\ x.left <= y.right
    /\ y.left <= x.right
    /\ x.top <= y.bottom
    /\ y.top <= x.bottom

\* acc is <<>> (null) or <<box>>
mergeBoundingBoxes(acc, box) ==
    IF acc = <<>> THEN <<box>>
    ELSE <<[top    |-> Min(acc[1].top, box.top),
            right  |-> Max(acc[1].right, box.right),
            bottom |-> Max(acc[1].bottom, box.bottom),
            left   |-> Min(acc[1].left, box.left)]>>

\* splitLinearSegmentAt: p = lerp(a, b, t); the quotient is exact on the lattice.
lerpPoint(p, q, t) ==
    <<p[1] + ((q[1] - p[1]) * t[1]) \div t[2],
      p[2] + ((q[2] - p[2]) * t[1]) \div t[2]>>
splitSegmentAt(seg, t) ==
    Let(lerpPoint(seg[2], seg[3], t),
        LAMBDA p : <<(<<"L", seg[2], p>>), (<<"L", p, seg[3]>>)>>)

(***************************************************************************)
(* intersections/line-segment.ts, intersections/path-segment.ts            *)
(***************************************************************************)
\* Returns <<>> (null) or <<(<<s, t>>)>> with s, t fractions.
\* |denom| < COLLINEAR_EPS (= 64 * Number.MIN_VALUE) is denom = 0 on integers.
lineSegmentIntersection(l1, l2, epsInv) ==
    LET a1 == l1[2][1] - l1[1][1]
        b1 == l2[1][1] - l2[2][1]
        c1 == l2[1][1] - l1[1][1]
        a2 == l1[2][2] - l1[1][2]
        b2 == l2[1][2] - l2[2][2]
        c2 == l2[1][2] - l1[1][2]
        denom == a1 * b2 - a2 * b1
        inRange(x) == /\ ~GtEps(<<-x[1], x[2]>>, epsInv)         \* -eps <= x
                      /\ ~GtEps(<<x[1] - x[2], x[2]>>, epsInv)  \* x <= 1 + eps
    IN  IF denom = 0 THEN <<>>
        ELSE Let(<<Rat(c1 * b2 - c2 * b1, denom), Rat(a1 * c2 - a2 * c1, denom)>>,
                 LAMBDA st : IF inRange(st[1]) /\ inRange(st[2]) THEN <<st>> ELSE <<>>)

\* x < eps || x > 1 - eps
nearEndpoint(x, epsInv) ==
    LtEps(x, epsInv) \/ LtEps(<<x[2] - x[1], x[2]>>, epsInv)

\* Two "L" segments.  When lineSegmentIntersection gives null the function
\* goes on to its bisection loop; for two straight segments whose lines do
\* not meet inside both of them (or are parallel, or equal) every pair of
\* halves fails lineSegmentsIntersect, so the loop returns no parameters.
pathSegmentIntersection(seg0, seg1, endpoints) ==
    Let(lineSegmentIntersection(<<seg0[2], seg0[3]>>, <<seg1[2], seg1[3]>>, EpsParamInv),
        LAMBDA st :
            IF st = <<>> THEN <<>>
            ELSE IF /\ ~endpoints
                    /\ nearEndpoint(st[1][1], EpsParamInv)
                    /\ nearEndpoint(st[1][2], EpsParamInv)
                 THEN <<>>
                 ELSE st)

(***************************************************************************)
(* segmentToEdge, splitAtIntersections                                     *)
(*                                                                         *)
(* Every edge record of every stage also carries boundingBox in the        *)
(* source; it always equals pathSegmentBoundingBox(edge.seg), so the model *)
(* computes it where it is read.  splitAtSelfIntersections only touches    *)
(* "C" segments and is the identity on the modelled inputs.                *)
(***************************************************************************)
segmentToEdge(parent, seg) == [seg |-> seg, parent |-> parent]

RECURSIVE reduceBoundingBox(_, _, _)
reduceBoundingBox(edges, k, acc) ==
    IF k > Len(edges) THEN acc
    ELSE Let(mergeBoundingBoxes(acc, pathSegmentBoundingBox(edges[k].seg)),
             LAMBDA merged : reduceBoundingBox(edges, k + 1, merged))
totalBoundingBoxOf(edges) == reduceBoundingBox(edges, 1, <<>>)

\* The flag with the parents' roles exchanged: raised for every pair of one
\* parent, dropped for edges of different parents that meet head to tail.
includeEndpointsDifferentParents(edge, candidate) ==
    \/ edge.parent = candidate.parent
    \/ ~ (\/ vectorsEqual(getEndPoint(candidate.seg), getStartPoint(edge.seg), EpsPointInv)
          \/ vectorsEqual(getStartPoint(candidate.seg), getEndPoint(edge.seg), EpsPointInv))

includeEndpoints(edge, candidate) ==
    \/ edge.parent # candidate.parent
    \/ ~ (\/ vectorsEqual(getEndPoint(candidate.seg), getStartPoint(edge.seg), EpsPointInv)
          \/ vectorsEqual(getStartPoint(candidate.seg), getEndPoint(edge.seg), EpsPointInv))

\* The parameters the loop of lines 1000-1039 finds for the pair (i, j), j < i:
\* <<>> or <<(<<t0, t1>>)>>.  edgeTree.find(box of edge i) returns the edges
\* inserted so far, that is the edges before i, whose box overlaps.
pairIntersection(edges, i, j) ==
    IF ~boundingBoxesOverlap(pathSegmentBoundingBox(edges[i].seg),
                             pathSegmentBoundingBox(edges[j].seg))
    THEN <<>>
    ELSE pathSegmentIntersection(edges[i].seg, edges[j].seg,
                                 includeEndpoints(edges[i], edges[j]))

\* splitsPerEdge[k] after the loop, <<>> for an edge without an entry: edge k
\* first receives t0 of its pairs with the earlier edges (iteration i = k,
\* candidates in insertion order), then t1 of its pairs with the later ones.
splitOfPair(edges, k, m) ==
    IF m < k
    THEN Let(pairIntersection(edges, k, m),
             LAMBDA x : IF x = <<>> THEN <<>> ELSE <<x[1][1]>>)
    ELSE Let(pairIntersection(edges, m + 1, k),
             LAMBDA x : IF x = <<>> THEN <<>> ELSE <<x[1][2]>>)
findSplits(edges, k) ==
    Let(SelectSeq([m \in 1..(Len(edges) - 1) |-> splitOfPair(edges, k, m)],
                  LAMBDA x : x # <<>>),
        LAMBDA hits : [m \in 1..Len(hits) |-> hits[m][1]])

\* splits.sort(): without a comparison function the default sort compares
\* the elements as strings, by code units.  A number t > 0 prints, with digits
\* d1 ... dk and 10^(n-1) <= t < 10^n, as "0.<-n zeros>d1...dk" when
\* -6 < n <= 0, as "d1...dk<n-k zeros>" when k <= n, and as
\* "d1.d2...dke-<1-n>" when n <= -6: every value below 1e-6 is printed in
\* exponent notation.  Strings are sequences of one-character strings.
\*
\* A double prints with the fewest digits that read back to it, 17 at most;
\* the expansion is cut there.
MaxDigits == 17
codeUnit(c) ==
    CASE c = "+" -> 43 [] c = "-" -> 45 [] c = "." -> 46 [] c = "e" -> 101
      [] OTHER -> 48 + (CHOOSE k \in 0..9 : ToString(k) = c)

\* [m, n]: m = t / 10^(n - 1) with 1 <= m < 10, for t > 0
RECURSIVE normalise(_, _)
normalise(t, n) ==
    IF t[1] < t[2] THEN normalise(<<10 * t[1], t[2]>>, n - 1)
    ELSE IF t[1] >= 10 * t[2] THEN normalise(<<t[1], 10 * t[2]>>, n + 1)
    ELSE [m |-> t, n |-> n]

\* the digits of m / d, at most `left` of them, without trailing zeros
RECURSIVE digitsOf(_, _, _)
digitsOf(m, d, left) ==
    IF left = 0 \/ (m = 0) THEN <<>>
    ELSE Let(digitsOf(10 * (m % d), d, left - 1),
             LAMBDA rest : IF rest = <<>> /\ m \div d = 0 THEN <<>>
                           ELSE <<ToString(m \div d)>> \o rest)

zeros(k) == [i \in 1..k |-> "0"]

RECURSIVE naturalToString(_)
naturalToString(k) ==
    IF k < 10 THEN <<ToString(k)>>
    ELSE naturalToString(k \div 10) \o <<ToString(k % 10)>>

\* Number::toString(t) for t >= 0
numberToString(t) ==
    IF t[1] = 0 THEN <<"0">>
    ELSE Let(normalise(t, 1),
             LAMBDA mn :
                 Let(digitsOf(mn.m[1], mn.m[2], MaxDigits),
                     LAMBDA ds :
                         IF Len(ds) <= mn.n /\ mn.n <= 21
                         THEN ds \o zeros(mn.n - Len(ds))
                         ELSE IF 0 < mn.n /\ mn.n <= 21
                         THEN SubSeq(ds, 1, mn.n) \o <<".">> \o SubSeq(ds, mn.n + 1, Len(ds))
                         ELSE IF -6 < mn.n /\ mn.n <= 0
                         THEN <<"0", ".">> \o zeros(-mn.n) \o ds
                         ELSE (IF Len(ds) = 1 THEN ds
                               ELSE <<ds[1], ".">> \o SubSeq(ds, 2, Len(ds)))
                              \o <<"e", IF mn.n > 0 THEN "+" ELSE "-">>
                              \o naturalToString(Abs(mn.n - 1))))

\* x < y as strings: by code units, a proper prefix first
RECURSIVE stringLess(_, _)
stringLess(x, y) ==
    IF y = <<>> THEN FALSE
    ELSE IF x = <<>> THEN TRUE
    ELSE IF codeUnit(x[1]) # codeUnit(y[1]) THEN codeUnit(x[1]) < codeUnit(y[1])
    ELSE stringLess(Tail(x), Tail(y))

\* the sort is stable: x goes after the elements that are not greater
insertSplit(sorted, x) ==
    Let(numberToString(x),
        LAMBDA xs :
            Let(Cardinality({i \in 1..Len(sorted) :
                                ~stringLess(xs, numberToString(sorted[i]))}),
                LAMBDA k : SubSeq(sorted, 1, k) \o <<x>> \o SubSeq(sorted, k + 1, Len(sorted))))
RECURSIVE sortSplits(_)
sortSplits(s) ==
    IF s = <<>> THEN <<>>
    ELSE insertSplit(sortSplits(SubSeq(s, 1, Len(s) - 1)), s[Len(s)])

\* The loop of lines 1053-1076 for one edge, continued from split j.  Each
\* fragment is given with upTo, the parameter of the edge at which it ends
\* (history, not in the code): tmpSeg starts at from, and its point at tt is
\* the edge's point at from + (1 - from) * tt.
RECURSIVE splitLoop(_, _, _, _, _, _)
applySplitAt(parent, splits, j, tmpSeg, t, tt, from) ==
    IF LtEps(tt, EpsParamInv) \/ LtEps(RatSub(RatOne, tt), EpsParamInv)
    THEN splitLoop(parent, splits, j + 1, tmpSeg, t, from)
    ELSE Let(<<splitSegmentAt(tmpSeg, tt), RatAdd(from, RatMul(RatSub(RatOne, from), tt))>>,
             LAMBDA r : <<[seg |-> r[1][1], parent |-> parent, upTo |-> r[2]]>>
                        \o splitLoop(parent, splits, j + 1, r[1][2], t, r[2]))
splitLoop(parent, splits, j, tmpSeg, prevT, from) ==
    IF j > Len(splits) THEN <<[seg |-> tmpSeg, parent |-> parent, upTo |-> RatOne]>>
    ELSE IF LtEps(RatSub(RatOne, splits[j]), EpsParamInv)    \* t > 1 - EPS.param: break
    THEN <<[seg |-> tmpSeg, parent |-> parent, upTo |-> RatOne]>>
    ELSE applySplitAt(parent, splits, j, tmpSeg, splits[j],
                      RatDiv(RatSub(splits[j], prevT), RatSub(RatOne, prevT)), from)

\* newEdges of the loop: the fragments as edges
applySplits(parent, splits, j, tmpSeg, prevT) ==
    Let(splitLoop(parent, splits, j, tmpSeg, prevT, prevT),
        LAMBDA fragments : [k \in 1..Len(fragments) |->
                               [seg |-> fragments[k].seg, parent |-> fragments[k].parent]])

RECURSIVE splitEdgesFrom(_, _, _)
splitEdgesFrom(edges, splits, i) ==
    IF i > Len(edges) THEN <<>>
    ELSE (IF splits[i] = <<>> THEN <<edges[i]>>
          ELSE applySplits(edges[i].parent, sortSplits(splits[i]), 1,
                           edges[i].seg, RatZero))
         \o splitEdgesFrom(edges, splits, i + 1)

splitAtIntersections(edges) ==
    Let(totalBoundingBoxOf(edges),
        LAMBDA total :
            IF total = <<>> THEN [edges |-> <<>>, totalBoundingBox |-> <<>>]
            ELSE [edges |-> splitEdgesFrom(edges,
                                [k \in 1..Len(edges) |-> findSplits(edges, k)], 1),
                  totalBoundingBox |-> total])

(***************************************************************************)
(* findVertices                                                            *)
(*                                                                         *)
(* Objects are numbered in creation order and referred to by number; 0 is  *)
(* null.  vertexPairIdToEdges[id] is, in the model, the forward edges      *)
(* whose incidentVertices are the pair, in creation order: the forward     *)
(* edge keeps the seg of the stage-2 edge it was made from.                *)
(***************************************************************************)
bitOr(x, y) == Max(x % 2, y % 2) + 2 * Max((x \div 2) % 2, (y \div 2) % 2)
bitAnd(x, y) == Min(x % 2, y % 2) + 2 * Min((x \div 2) % 2, (y \div 2) % 2)

\* boundingBoxesOverlap of two boundingBoxAroundPoint(., EPS.point):
\* |dx| <= 2 eps and |dy| <= 2 eps
pointBoxesOverlap(p, q) ==
    /\ ~GtEps(<<Abs(p[1] - q[1]), 2>>, EpsPointInv)
    /\ ~GtEps(<<Abs(p[2] - q[2]), 2>>, EpsPointInv)

\* vertexTree.find(box): the first vertex found, 0 if none
findVertex(vertices, point) ==
    Let({v \in 1..Len(vertices) : pointBoxesOverlap(vertices[v].point, point)},
        LAMBDA found : IF found = {} THEN 0
                       ELSE CHOOSE v \in found : \A w \in found : v <= w)

\* [g, vertex]: the graph after getVertex(point) and the vertex it returns
getVertex(g, point) ==
    Let(findVertex(g.vertices, point),
        LAMBDA v :
            IF v # 0 THEN [g |-> g, vertex |-> v]
            ELSE [g |-> [g EXCEPT !.vertices =
                            Append(@, [point |-> point, outgoingEdges |-> <<>>])],
                  vertex |-> Len(g.vertices) + 1])

\* addEdge dropping a duplicate without OR-ing its parent into the kept pair
addEdgeDropDuplicate(g, edge, startVertex, endVertex) ==
    IF \E k \in 1..Len(g.edges) :
          /\ ~g.edges[k].directionFlag
          /\ g.edges[k].incidentVertices = <<startVertex, endVertex>>
          /\ segmentsEqual(g.edges[k].seg, edge.seg, EpsPointInv)
    THEN g
    ELSE [vertices |->
             [[g.vertices EXCEPT ![startVertex].outgoingEdges = Append(@, Len(g.edges) + 1)]
                          EXCEPT ![endVertex].outgoingEdges = Append(@, Len(g.edges) + 2)],
          edges |-> g.edges \o
             <<[seg |-> edge.seg, parent |-> edge.parent,
                incidentVertices |-> <<startVertex, endVertex>>,
                directionFlag |-> FALSE, twin |-> Len(g.edges) + 2],
               [seg |-> edge.seg, parent |-> edge.parent,
                incidentVertices |-> <<endVertex, startVertex>>,
                directionFlag |-> TRUE, twin |-> Len(g.edges) + 1]>>]

\* addEdge OR-ing the parent of a duplicate into the forward edge only
addEdgeMergeForwardOnly(g, edge, startVertex, endVertex) ==
    Let({k \in 1..Len(g.edges) :
            /\ ~g.edges[k].directionFlag
            /\ g.edges[k].incidentVertices = <<startVertex, endVertex>>
            /\ segmentsEqual(g.edges[k].seg, edge.seg, EpsPointInv)},
        LAMBDA same :
            IF same # {}
            THEN Let(CHOOSE k \in same : \A m \in same : k <= m,
                     LAMBDA existingEdge :
                         [g EXCEPT !.edges[existingEdge].parent = bitOr(@, edge.parent)])
            ELSE Let(Len(g.edges) + 1,
                     LAMBDA fwd :
                         [vertices |->
                             [[g.vertices EXCEPT ![startVertex].outgoingEdges = Append(@, fwd)]
                                          EXCEPT ![endVertex].outgoingEdges = Append(@, fwd + 1)],
                          edges |-> g.edges \o
                             <<[seg |-> edge.seg, parent |-> edge.parent,
                                incidentVertices |-> <<startVertex, endVertex>>,
                                directionFlag |-> FALSE, twin |-> fwd + 1],
                               [seg |-> edge.seg, parent |-> edge.parent,
                                incidentVertices |-> <<endVertex, startVertex>>,
                                directionFlag |-> TRUE, twin |-> fwd]>>]))

\* lines 1145-1183, for the vertices found: merge into an equal edge between
\* the same ordered vertex pair, or add the forward and the backward edge
addEdge(g, edge, startVertex, endVertex) ==
    Let({k \in 1..Len(g.edges) :
            /\ ~g.edges[k].directionFlag
            /\ g.edges[k].incidentVertices = <<startVertex, endVertex>>
            /\ segmentsEqual(g.edges[k].seg, edge.seg, EpsPointInv)},
        LAMBDA same :
            IF same # {}
            THEN Let(CHOOSE k \in same : \A m \in same : k <= m,
                     LAMBDA existingEdge :
                         [g EXCEPT !.edges[existingEdge].parent = bitOr(@, edge.parent),
                                   !.edges[existingEdge + 1].parent = bitOr(@, edge.parent)])
            ELSE Let(Len(g.edges) + 1,
                     LAMBDA fwd :
                         [vertices |->
                             [[g.vertices EXCEPT ![startVertex].outgoingEdges = Append(@, fwd)]
                                          EXCEPT ![endVertex].outgoingEdges = Append(@, fwd + 1)],
                          edges |-> g.edges \o
                             <<[seg |-> edge.seg, parent |-> edge.parent,
                                incidentVertices |-> <<startVertex, endVertex>>,
                                directionFlag |-> FALSE, twin |-> fwd + 1],
                               [seg |-> edge.seg, parent |-> edge.parent,
                                incidentVertices |-> <<endVertex, startVertex>>,
                                directionFlag |-> TRUE, twin |-> fwd]>>]))

\* isZeroLength with a cubic discarded when either control point is at
\* its endpoint
isZeroLengthEitherControlPoint(seg) ==
    CASE seg[1] = "L" -> TRUE
      [] seg[1] = "C" -> \/ vectorsEqual(seg[2], seg[3], EpsPointInv)
                         \/ vectorsEqual(seg[4], seg[5], EpsPointInv)
      [] seg[1] = "Q" -> vectorsEqual(seg[2], seg[3], EpsPointInv)
      [] seg[1] = "A" -> seg[6] = FALSE

\* the switch of lines 1120-1142: whether a segment from a vertex to the
\* same vertex is discarded
isZeroLength(seg) ==
    CASE seg[1] = "L" -> TRUE
      [] seg[1] = "C" -> /\ vectorsEqual(seg[2], seg[3], EpsPointInv)
                         /\ vectorsEqual(seg[4], seg[5], EpsPointInv)
      [] seg[1] = "Q" -> vectorsEqual(seg[2], seg[3], EpsPointInv)
      [] seg[1] = "A" -> seg[6] = FALSE

\* whether the flatMap callback discards the edge as a zero-length segment
discardsEdge(g0, edge) ==
    Let(getVertex(g0, getStartPoint(edge.seg)),
        LAMBDA r1 :
            Let(getVertex(r1.g, getEndPoint(edge.seg)),
                LAMBDA r2 : r1.vertex = r2.vertex /\ isZeroLength(edge.seg)))

\* the body of the flatMap callback for one stage-2 edge
findVerticesStep(g0, edge) ==
    Let(getVertex(g0, getStartPoint(edge.seg)),
        LAMBDA r1 :
            Let(getVertex(r1.g, getEndPoint(edge.seg)),
                LAMBDA r2 :
                    IF r1.vertex = r2.vertex /\ isZeroLength(edge.seg)
                    THEN r2.g     \* discarded; the vertex stays
                    ELSE addEdge(r2.g, edge, r1.vertex, r2.vertex)))

RECURSIVE foldEdges(_, _, _)
foldEdges(edges, k, g) ==
    IF k > Len(edges) THEN g
    ELSE Let(findVerticesStep(g, edges[k]), LAMBDA g1 : foldEdges(edges, k + 1, g1))

findVertices(edges) == foldEdges(edges, 1, [vertices |-> <<>>, edges |-> <<>>])

getOrder(vertex) == Len(vertex.outgoingEdges)

(***************************************************************************)
(* computeMinor                                                            *)
(*                                                                         *)
(* A minor graph is [vpool, epool, vertices, edges, cycles]: vpool and     *)
(* epool hold the vertex and edge objects in creation order, vertices and  *)
(* edges are the arrays graph.vertices and graph.edges of object numbers.  *)
(* A failed assertion yields [error |-> message].                          *)
(***************************************************************************)
otherEdge(G, vertex, edge) ==
    IF G.edges[G.vertices[vertex].outgoingEdges[1]].twin = edge
    THEN G.vertices[vertex].outgoingEdges[2]
    ELSE G.vertices[vertex].outgoingEdges[1]

twinStructureOk(G, vertex, edge) ==
    \/ G.edges[G.vertices[vertex].outgoingEdges[1]].twin = edge
    \/ G.edges[G.vertices[vertex].outgoingEdges[2]].twin = edge

\* the while loop of lines 1219-1232 and the push after it
RECURSIVE walkChain(_, _, _, _, _)
walkChain(G, startEdge, edge, segs, visited) ==
    IF /\ G.edges[edge].parent = G.edges[startEdge].parent
       /\ G.edges[edge].directionFlag = G.edges[startEdge].directionFlag
       /\ getOrder(G.vertices[G.edges[edge].incidentVertices[2]]) = 2
    THEN IF ~twinStructureOk(G, G.edges[edge].incidentVertices[2], edge)
         THEN [error |-> "Wrong twin structure."]
         ELSE Let(Append(segs, G.edges[edge].seg),
                  LAMBDA segs1 :
                      walkChain(G, startEdge,
                                otherEdge(G, G.edges[edge].incidentVertices[2], edge),
                                segs1, visited \cup {G.edges[edge].incidentVertices[2]}))
    ELSE [error |-> "", segments |-> Append(segs, G.edges[edge].seg), edge |-> edge,
          visited |-> visited]

\* toMinorVertex: memoized per major vertex
toMinorVertex(m, majorVertex) ==
    IF m.toMinor[majorVertex] # 0 THEN m
    ELSE [m EXCEPT !.vpool = Append(@, [outgoingEdges |-> <<>>]),
                   !.toMinor[majorVertex] = Len(m.vpool) + 1]

\* idToEdge[id] ?? null
idToEdge(m, id) ==
    Let({k \in 1..Len(m.epool) : m.epool[k].id = id},
        LAMBDA found : IF found = {} THEN 0 ELSE CHOOSE k \in found : TRUE)

\* lines 1234-1252: the new edge runs from startEdge to edge along segs
pushMinorEdge(G, m, vertex, startEdge, edge, segs, twin) ==
    [m EXCEPT !.epool = Append(IF twin = 0 THEN @
                               ELSE [@ EXCEPT ![twin].twin = Len(m.epool) + 1],
                               [segments |-> segs,
                                parent |-> G.edges[startEdge].parent,
                                incidentVertices |->
                                    <<m.toMinor[vertex],
                                      m.toMinor[G.edges[edge].incidentVertices[2]]>>,
                                directionFlag |-> G.edges[startEdge].directionFlag,
                                twin |-> twin,
                                id |-> <<startEdge, edge>>]),
              !.vpool[m.toMinor[vertex]].outgoingEdges = Append(@, Len(m.epool) + 1)]

\* the body of the loop over vertex.outgoingEdges, lines 1216-1253
minorEdgeStep(G, m0, vertex, startEdge) ==
    Let(walkChain(G, startEdge, startEdge, <<>>, m0.visited),
        LAMBDA chain :
            IF chain.error # "" THEN [m0 EXCEPT !.error = chain.error]
            ELSE Let(toMinorVertex([m0 EXCEPT !.visited = chain.visited],
                                   G.edges[chain.edge].incidentVertices[2]),
                     LAMBDA m :
                         pushMinorEdge(G, m, vertex, startEdge, chain.edge, chain.segments,
                             idToEdge(m, <<G.edges[chain.edge].twin,
                                           G.edges[startEdge].twin>>))))

\* the do-while loop of lines 1266-1280
RECURSIVE walkCycle(_, _, _, _, _)
walkCycle(G, vertex, edge, segs, visited) ==
    IF getOrder(G.vertices[G.edges[edge].incidentVertices[2]]) # 2
    THEN [error |-> "Found an unvisited vertex of order != 2."]
    ELSE IF ~twinStructureOk(G, G.edges[edge].incidentVertices[2], edge)
    THEN [error |-> "Wrong twin structure."]
    ELSE Let(otherEdge(G, G.edges[edge].incidentVertices[2], edge),
             LAMBDA next :
                 IF G.edges[next].incidentVertices[1] # vertex
                 THEN Let(Append(segs, G.edges[edge].seg),
                          LAMBDA segs1 :
                              walkCycle(G, vertex, next, segs1,
                                        visited \cup {G.edges[edge].incidentVertices[1]}))
                 ELSE [error |-> "", segments |-> Append(segs, G.edges[edge].seg),
                       visited |-> visited \cup {G.edges[edge].incidentVertices[1]}])

\* the loop over vertex.outgoingEdges, lines 1216-1253
RECURSIVE minorEdges(_, _, _, _)
minorEdges(G, vertex, k, m) ==
    IF m.error # "" \/ k > getOrder(G.vertices[vertex]) THEN m
    ELSE minorEdges(G, vertex, k + 1,
             minorEdgeStep(G, m, vertex, G.vertices[vertex].outgoingEdges[k]))

\* the first loop over the vertices, lines 1211-1254
RECURSIVE minorChains(_, _, _)
minorChains(G, vertex, m) ==
    IF m.error # "" \/ vertex > Len(G.vertices) THEN m
    ELSE IF getOrder(G.vertices[vertex]) = 2 THEN minorChains(G, vertex + 1, m)
    ELSE minorChains(G, vertex + 1, minorEdges(G, vertex, 1, toMinorVertex(m, vertex)))

pushCycle(G, m, edge, walk) ==
    IF walk.error # "" THEN [m EXCEPT !.error = walk.error]
    ELSE [m EXCEPT !.visited = walk.visited,
                   !.cycles = Append(@, [segments |-> walk.segments,
                                         parent |-> G.edges[edge].parent,
                                         directionFlag |-> G.edges[edge].directionFlag])]

\* the second loop over the vertices, lines 1258-1282
RECURSIVE minorCycles(_, _, _)
minorCycles(G, vertex, m) ==
    IF m.error # "" \/ vertex > Len(G.vertices) THEN m
    ELSE IF getOrder(G.vertices[vertex]) # 2 \/ vertex \in m.visited
    THEN minorCycles(G, vertex + 1, m)
    ELSE minorCycles(G, vertex + 1,
             pushCycle(G, m, G.vertices[vertex].outgoingEdges[1],
                       walkCycle(G, vertex, G.vertices[vertex].outgoingEdges[1],
                                 <<>>, m.visited)))

computeMinor(G) ==
    Let(minorCycles(G, 1, minorChains(G, 1,
            [vpool |-> <<>>, epool |-> <<>>, cycles |-> <<>>,
             toMinor |-> [v \in 1..Len(G.vertices) |-> 0], visited |-> {},
             error |-> ""])),
        LAMBDA m :
            [error |-> m.error, vpool |-> m.vpool, epool |-> m.epool,
             vertices |-> [i \in 1..Len(m.vpool) |-> i],
             edges |-> [i \in 1..Len(m.epool) |-> i],
             cycles |-> m.cycles])

(***************************************************************************)
(* removeDanglingEdges                                                     *)
(***************************************************************************)
\* visit(vertex, incomingEdge, level) of walk(parent); st is
\* [level, kept]: vertexToLevel (-1: no entry) and keptVertices.
\* Infinity is any number above every level: the number of vertices plus one.
RECURSIVE visit(_, _, _, _, _, _), visitOutgoing(_, _, _, _, _, _, _, _)
keepIfBelow(vertex, level, r) ==
    [st |-> IF r.ret <= level THEN [r.st EXCEPT !.kept = @ \cup {vertex}] ELSE r.st,
     ret |-> r.ret]
visit(g, parent, vertex, incomingEdge, level, st) ==
    IF st.level[vertex] # -1 THEN [st |-> st, ret |-> st.level[vertex]]
    ELSE keepIfBelow(vertex, level,
             visitOutgoing(g, parent, vertex, incomingEdge, level, 1,
                           [st EXCEPT !.level[vertex] = level], Len(g.vpool) + 1))
visitOutgoing(g, parent, vertex, incomingEdge, level, k, st, minLevel) ==
    IF k > Len(g.vpool[vertex].outgoingEdges) THEN [st |-> st, ret |-> minLevel]
    ELSE IF /\ bitAnd(g.epool[g.vpool[vertex].outgoingEdges[k]].parent, parent) # 0
            /\ g.vpool[vertex].outgoingEdges[k] # incomingEdge
    THEN Let(visit(g, parent,
                   g.epool[g.vpool[vertex].outgoingEdges[k]].incidentVertices[2],
                   g.epool[g.vpool[vertex].outgoingEdges[k]].twin, level + 1, st),
             LAMBDA r : visitOutgoing(g, parent, vertex, incomingEdge, level, k + 1,
                                      r.st, Min(minLevel, r.ret)))
    ELSE visitOutgoing(g, parent, vertex, incomingEdge, level, k + 1, st, minLevel)

\* the loop of lines 1323-1327
RECURSIVE walkEdges(_, _, _, _)
walkEdges(g, parent, k, st) ==
    IF k > Len(g.edges) THEN st
    ELSE IF bitAnd(g.epool[g.edges[k]].parent, parent) # 0
    THEN Let(visit(g, parent, g.epool[g.edges[k]].incidentVertices[1], 0, 0, st),
             LAMBDA r : walkEdges(g, parent, k + 1, r.st))
    ELSE walkEdges(g, parent, k + 1, st)

\* walk(parent)
keptVerticesOf(g, parent) ==
    walkEdges(g, parent, 1, [level |-> [v \in 1..Len(g.vpool) |-> -1], kept |-> {}]).kept

keepEdge(g, keptVerticesA, keptVerticesB, e) ==
    \/ /\ bitAnd(g.epool[e].parent, 1) = 1
       /\ g.epool[e].incidentVertices[1] \in keptVerticesA
       /\ g.epool[e].incidentVertices[2] \in keptVerticesA
    \/ /\ bitAnd(g.epool[e].parent, 2) = 2
       /\ g.epool[e].incidentVertices[1] \in keptVerticesB
       /\ g.epool[e].incidentVertices[2] \in keptVerticesB

\* lines 1350-1356
filterGraph(g, keptVerticesA, keptVerticesB) ==
    [g EXCEPT !.vertices = SelectSeq(@, LAMBDA v : v \in keptVerticesA \cup keptVerticesB),
              !.vpool = [v \in 1..Len(g.vpool) |->
                            IF v \in Range(g.vertices) /\ v \in keptVerticesA \cup keptVerticesB
                            THEN [outgoingEdges |->
                                     SelectSeq(g.vpool[v].outgoingEdges,
                                         LAMBDA e : keepEdge(g, keptVerticesA, keptVerticesB, e))]
                            ELSE g.vpool[v]],
              !.edges = SelectSeq(@, LAMBDA e : keepEdge(g, keptVerticesA, keptVerticesB, e))]

removeDanglingEdges(g) ==
    filterGraph(g, keptVerticesOf(g, 1), keptVerticesOf(g, 2))

(***************************************************************************)
(* getIncidenceAngle, sortOutgoingEdgesByAngle, getNextEdge                *)
(***************************************************************************)
\* The direction p1 - p0 of getIncidenceAngle, up to the positive factor
\* EPS.param: along segments[0] from its start for a forward edge, from its
\* end backwards for a backward edge.
incidenceDirection(edge) ==
    IF ~edge.directionFlag
    THEN <<edge.segments[1][3][1] - edge.segments[1][2][1],
           edge.segments[1][3][2] - edge.segments[1][2][2]>>
    ELSE <<edge.segments[1][2][1] - edge.segments[1][3][1],
           edge.segments[1][2][2] - edge.segments[1][3][2]>>

\* Math.atan2(d[1], d[0]) < Math.atan2(e[1], e[0]), decided exactly.  atan2
\* ranges over (-pi, pi]: the lower half plane, the positive x axis, the upper
\* half plane, the negative x axis; inside a half plane the cross product decides.
angleClass(d) ==
    IF d[2] < 0 THEN 0
    ELSE IF d[2] = 0 /\ d[1] >= 0 THEN 1
    ELSE IF d[2] > 0 THEN 2
    ELSE 3
angleLess(d, e) ==
    \/ angleClass(d) < angleClass(e)
    \/ /\ angleClass(d) = angleClass(e)
       /\ d[1] * e[2] - d[2] * e[1] > 0

\* Array.prototype.sort with the comparator getAngle(a) - getAngle(b); stable
insertByAngle(g, sorted, x) ==
    Let(Cardinality({i \in 1..Len(sorted) :
            ~angleLess(incidenceDirection(g.epool[x]),
                       incidenceDirection(g.epool[sorted[i]]))}),
        LAMBDA k : SubSeq(sorted, 1, k) \o <<x>> \o SubSeq(sorted, k + 1, Len(sorted)))
RECURSIVE sortByAngle(_, _)
sortByAngle(g, s) ==
    IF s = <<>> THEN <<>>
    ELSE insertByAngle(g, sortByAngle(g, SubSeq(s, 1, Len(s) - 1)), s[Len(s)])

sortOutgoingEdgesByAngle(g) ==
    [g EXCEPT !.vpool = [v \in 1..Len(g.vpool) |->
        IF v \in Range(g.vertices) /\ getOrder(g.vpool[v]) > 2
        THEN [outgoingEdges |-> sortByAngle(g, g.vpool[v].outgoingEdges)]
        ELSE g.vpool[v]]]

\* findIndex gives -1 when no outgoing edge has the edge as twin, and then
\* (index + 1) % length selects the first outgoing edge.
nextAfter(outgoingEdges, found) ==
    outgoingEdges[((IF found = {} THEN 0
                    ELSE CHOOSE i \in found : \A j \in found : i <= j)
                   % Len(outgoingEdges)) + 1]
getNextEdge(g, edge) ==
    nextAfter(g.vpool[g.epool[edge].incidentVertices[2]].outgoingEdges,
              {i \in 1..Len(g.vpool[g.epool[edge].incidentVertices[2]].outgoingEdges) :
                  g.epool[g.vpool[g.epool[edge].incidentVertices[2]].outgoingEdges[i]].twin
                      = edge})

(***************************************************************************)
(* faceToPolygon, computePointWinding, computeWinding                      *)
(*                                                                         *)
(* faceToPolygon samples every segment of the boundary at t = i / CNT,     *)
(* i = 0 .. CNT - 1.  Point j of the polygon is kept as CNT times its      *)
(* coordinates, a tested point (a + b + c) / 3 as 3 * CNT times its        *)
(* coordinates, so that both are integers.                                 *)
(***************************************************************************)
CNT == 64

\* the segments of a half-edge as the boundary walks them
emitSegments(edge) ==
    IF edge.directionFlag
    THEN [i \in 1..Len(edge.segments) |-> reversePathSegment(edge.segments[i])]
    ELSE edge.segments

\* the segments of a face boundary in walking order, each oriented as walked
RECURSIVE faceBoundary(_, _, _)
faceBoundary(D, face, k) ==
    IF k > Len(D.faces[face].incidentEdges) THEN <<>>
    ELSE emitSegments(D.halfEdges[D.faces[face].incidentEdges[k]])
         \o faceBoundary(D, face, k + 1)

\* polygon[j] (j from 0) times CNT, for the polygon of the oriented segments segs
polygonPoint(segs, j) ==
    <<CNT * segs[(j \div CNT) + 1][2][1]
        + (j % CNT) * (segs[(j \div CNT) + 1][3][1] - segs[(j \div CNT) + 1][2][1]),
      CNT * segs[(j \div CNT) + 1][2][2]
        + (j % CNT) * (segs[(j \div CNT) + 1][3][2] - segs[(j \div CNT) + 1][2][2])>>

\* the same inequality at both ends
intervalCrossesPointClosed(lo, hi, p) == (lo >= p) = (hi <= p)

intervalCrossesPoint(lo, hi, p) == (lo >= p) = (hi < p)

\* x = linMap(point[1], a[1], b[1], a[0], b[0]) >= point[0], cleared of the
\* division: b[1] # a[1] whenever the interval crosses
lineSegmentIntersectsHorizontalRay(p, q, point) ==
    /\ intervalCrossesPoint(p[2], q[2], point[2])
    /\ IF q[2] > p[2]
       THEN (point[2] - p[2]) * (q[1] - p[1]) >= (point[1] - p[1]) * (q[2] - p[2])
       ELSE (point[2] - p[2]) * (q[1] - p[1]) <= (point[1] - p[1]) * (q[2] - p[2])

\* the term one polygon edge from p to q adds to the winding; p, q are CNT
\* times the polygon points, testedPoint 3 * CNT times the tested point
crossing(p, q, testedPoint) ==
    IF lineSegmentIntersectsHorizontalRay(<<3 * p[1], 3 * p[2]>>, <<3 * q[1], 3 * q[2]>>,
                                          testedPoint)
    THEN (IF q[2] > p[2] THEN -1 ELSE 1)
    ELSE 0

\* computePointWinding over the sampled polygon.  The CNT - 1 polygon edges
\* between the samples of one segment lie on one line and their half-open
\* intervals tile the interval from sample 0 to sample CNT - 1, so they cross
\* the ray exactly when that one interval does, in the same direction; what
\* remains is the polygon edge from sample CNT - 1 to the next segment's sample 0.
RECURSIVE windingSum(_, _, _)
windingSum(segs, k, testedPoint) ==
    IF k > Len(segs) THEN 0
    ELSE crossing(polygonPoint(segs, (k - 1) * CNT), polygonPoint(segs, k * CNT - 1),
                  testedPoint)
         + crossing(polygonPoint(segs, k * CNT - 1),
                    polygonPoint(segs, (k % Len(segs)) * CNT), testedPoint)
         + windingSum(segs, k + 1, testedPoint)
computePointWinding(segs, testedPoint) ==
    IF Len(segs) * CNT <= 2 THEN 0 ELSE windingSum(segs, 1, testedPoint)

\* 3 * CNT times the tested point (a + b + c) / 3 of polygon index i
testedPointAt(segs, i) ==
    <<polygonPoint(segs, i)[1] + polygonPoint(segs, (i + 1) % (Len(segs) * CNT))[1]
        + polygonPoint(segs, (i + 2) % (Len(segs) * CNT))[1],
      polygonPoint(segs, i)[2] + polygonPoint(segs, (i + 1) % (Len(segs) * CNT))[2]
        + polygonPoint(segs, (i + 2) % (Len(segs) * CNT))[2]>>

\* The loop of computeWinding over i, one segment (CNT tested points) at a
\* time from segment k on: the first winding that is not 0, or 0 if there is none
RECURSIVE firstWinding(_, _)
firstWinding(segs, k) ==
    IF k > Len(segs) THEN 0
    ELSE Let({i \in ((k - 1) * CNT)..(k * CNT - 1) :
                 computePointWinding(segs, testedPointAt(segs, i)) # 0},
             LAMBDA nonzero :
                 IF nonzero = {} THEN firstWinding(segs, k + 1)
                 ELSE computePointWinding(segs,
                          testedPointAt(segs, CHOOSE i \in nonzero : \A j \in nonzero : i <= j)))

\* computeWinding(face).winding, or 0 where the code raises
\* "No ear in polygon found." (a returned winding is never 0)
computeWinding(D, face) == firstWinding(faceBoundary(D, face, 1), 1)

(***************************************************************************)
(* computeDual                                                             *)
(*                                                                         *)
(* A dual graph is [faces, halfEdges, components]: the pools of            *)
(* DualGraphVertex and DualGraphHalfEdge objects in creation order, and    *)
(* the components, each [vertices, edges, outerFace] of object numbers.    *)
(***************************************************************************)
\* lines 1484-1496: the half-edge of one minor edge is created in face
pushHalfEdge(g, d, edge, face, twin) ==
    [d EXCEPT !.halfEdges = Append(IF twin = 0 THEN @
                                   ELSE [@ EXCEPT ![twin].twin = Len(d.halfEdges) + 1],
                                   [segments |-> g.epool[edge].segments,
                                    parent |-> g.epool[edge].parent,
                                    incidentVertex |-> face,
                                    directionFlag |-> g.epool[edge].directionFlag,
                                    twin |-> twin]),
              !.minorToDualEdge[edge] = Len(d.halfEdges) + 1,
              !.faces[face].incidentEdges = Append(@, Len(d.halfEdges) + 1)]

\* the do-while loop of lines 1482-1498 for one face
RECURSIVE walkFace(_, _, _, _, _)
walkFace(g, startEdge, edge, face, d) ==
    IF g.epool[edge].twin = 0 THEN [d EXCEPT !.error = "Edge doesn't have a twin"]
    ELSE Let(pushHalfEdge(g, d, edge, face, d.minorToDualEdge[g.epool[edge].twin]),
             LAMBDA d1 :
                 Let(getNextEdge(g, edge),
                     LAMBDA next :
                         IF g.epool[next].incidentVertices[1]
                                # g.epool[startEdge].incidentVertices[1]
                         THEN walkFace(g, startEdge, next, face, d1)
                         ELSE d1))

\* lines 1475-1500
RECURSIVE dualFaces(_, _, _)
dualFaces(g, k, d) ==
    IF d.error # "" \/ k > Len(g.edges) THEN d
    ELSE IF d.minorToDualEdge[g.edges[k]] # 0 THEN dualFaces(g, k + 1, d)
    ELSE dualFaces(g, k + 1,
             walkFace(g, g.edges[k], g.edges[k], Len(d.faces) + 1,
                      [d EXCEPT !.faces = Append(@, [incidentEdges |-> <<>>, flag |-> 0])]))

reverseSeq(s) == [i \in 1..Len(s) |-> s[Len(s) + 1 - i]]

\* lines 1503-1533 for one cycle: inner face and half-edge, outer face and half-edge
pushCycleFaces(d, cycle, face, edge) ==
    [d EXCEPT !.faces = @ \o <<[incidentEdges |-> <<edge>>, flag |-> 0],
                               [incidentEdges |-> <<edge + 1>>, flag |-> 0]>>,
              !.halfEdges = @ \o
                  <<[segments |-> cycle.segments, parent |-> cycle.parent,
                     incidentVertex |-> face,
                     directionFlag |-> cycle.directionFlag, twin |-> edge + 1],
                    [segments |-> reverseSeq(cycle.segments), parent |-> cycle.parent,
                     incidentVertex |-> face + 1,
                     directionFlag |-> ~cycle.directionFlag, twin |-> edge]>>]

\* lines 1502-1534
RECURSIVE dualCycles(_, _, _)
dualCycles(g, k, d) ==
    IF d.error # "" \/ k > Len(g.cycles) THEN d
    ELSE dualCycles(g, k + 1,
             pushCycleFaces(d, g.cycles[k], Len(d.faces) + 1, Len(d.halfEdges) + 1))

\* visit(vertex) of lines 1544-1560; c is [vertices, edges, visitedVertices,
\* visitedEdges, error]
RECURSIVE visitComponent(_, _, _), visitIncident(_, _, _, _)
visitComponent(d, vertex, c) ==
    visitIncident(d, vertex, 1,
        [c EXCEPT !.vertices = IF vertex \in c.visitedVertices THEN @ ELSE Append(@, vertex),
                  !.visitedVertices = @ \cup {vertex}])
visitIncident(d, vertex, k, c) ==
    IF c.error # "" \/ k > Len(d.faces[vertex].incidentEdges) THEN c
    ELSE IF d.faces[vertex].incidentEdges[k] \in c.visitedEdges
    THEN visitIncident(d, vertex, k + 1, c)
    ELSE IF d.halfEdges[d.faces[vertex].incidentEdges[k]].twin = 0
    THEN [c EXCEPT !.error = "Edge doesn't have a twin."]
    ELSE visitIncident(d, vertex, k + 1,
             visitComponent(d,
                 d.halfEdges[d.halfEdges[d.faces[vertex].incidentEdges[k]].twin].incidentVertex,
                 [c EXCEPT !.edges = @ \o <<d.faces[vertex].incidentEdges[k],
                                            d.halfEdges[d.faces[vertex].incidentEdges[k]].twin>>,
                           !.visitedEdges = @ \cup
                               {d.faces[vertex].incidentEdges[k],
                                d.halfEdges[d.faces[vertex].incidentEdges[k]].twin}]))

\* lines 1562-1573 for the faces of one component with their windings (0: none).
\* find stops at the first face of negative winding; it and countIf ask every
\* face for its winding, which raises for a face that has none.
outerFaceError(vertices, winding) ==
    IF \E i \in 1..Len(vertices) : winding[i] = 0 THEN "No ear in polygon found."
    ELSE IF \A i \in 1..Len(vertices) : winding[i] > 0
    THEN "No outer face of a component found."
    ELSE IF Cardinality({i \in 1..Len(vertices) : winding[i] < 0}) # 1
    THEN "Multiple outer faces found."
    ELSE ""

\* lines 1574-1578
pushComponent(acc, c, winding) ==
    IF c.error # "" THEN [acc EXCEPT !.error = c.error]
    ELSE IF outerFaceError(c.vertices, winding) # ""
    THEN [acc EXCEPT !.error = outerFaceError(c.vertices, winding)]
    ELSE [acc EXCEPT !.components = Append(@,
                        [vertices |-> c.vertices, edges |-> c.edges,
                         outerFace |-> c.vertices[CHOOSE i \in 1..Len(c.vertices) :
                                                     winding[i] < 0]]),
                     !.visitedVertices = c.visitedVertices,
                     !.visitedEdges = c.visitedEdges]

\* lines 1540-1579
RECURSIVE dualComponents(_, _, _)
dualComponents(d, vertex, acc) ==
    IF acc.error # "" \/ vertex > Len(d.faces) THEN acc
    ELSE IF vertex \in acc.visitedVertices THEN dualComponents(d, vertex + 1, acc)
    ELSE dualComponents(d, vertex + 1,
             Let(visitComponent(d, vertex,
                     [vertices |-> <<>>, edges |-> <<>>,
                      visitedVertices |-> acc.visitedVertices,
                      visitedEdges |-> acc.visitedEdges, error |-> ""]),
                 LAMBDA c :
                     pushComponent(acc, c,
                         IF c.error # "" THEN <<>>
                         ELSE [i \in 1..Len(c.vertices) |->
                                  computeWinding(d, c.vertices[i])])))

\* the dual graph, with error "" or the message of the assertion that failed
computeDual(g) ==
    Let(dualCycles(g, 1,
            dualFaces(g, 1, [faces |-> <<>>, halfEdges |-> <<>>,
                             minorToDualEdge |-> [e \in 1..Len(g.epool) |-> 0],
                             error |-> ""])),
        LAMBDA d :
            Let(IF d.error # "" THEN [components |-> <<>>, error |-> d.error]
                ELSE dualComponents(d, 1, [components |-> <<>>, visitedVertices |-> {},
                                           visitedEdges |-> {}, error |-> ""]),
                LAMBDA acc :
                    [error |-> acc.error, faces |-> d.faces, halfEdges |-> d.halfEdges,
                     components |-> acc.components]))

(***************************************************************************)
(* testInclusion, computeNestingTree                                       *)
(*                                                                         *)
(* A nesting tree is [component, outgoingEdges]; outgoingEdges, a Map from *)
(* face to subtrees, is the sequence of its entries [face, subtrees] in    *)
(* insertion order.                                                        *)
(***************************************************************************)
\* x % n of JavaScript: the remainder has the sign of x
jsRem(x, n) == IF x >= 0 THEN x % n ELSE -((-x) % n)

boundingBoxIntersectsHorizontalRay(boundingBox, point) ==
    /\ intervalCrossesPoint(boundingBox.top, boundingBox.bottom, point[2])
    /\ boundingBox.right >= point[1]

\* For an "L" segment the bisection ends in pieces shorter than EPS.linear
\* whose half-open intervals tile the segment's, all on the segment's line:
\* one piece is counted exactly when the whole segment meets the ray.
pathSegmentHorizontalRayIntersectionCount(origSeg, point) ==
    IF ~boundingBoxIntersectsHorizontalRay(pathSegmentBoundingBox(origSeg), point) THEN 0
    ELSE IF lineSegmentIntersectsHorizontalRay(getStartPoint(origSeg),
                                               getEndPoint(origSeg), point)
    THEN 1 ELSE 0

\* count of lines 1646-1654 over the segments of one edge, then over the
\* incident edges of one face
RECURSIVE segCount(_, _, _)
segCount(segs, k, testedPoint) ==
    IF k > Len(segs) THEN 0
    ELSE pathSegmentHorizontalRayIntersectionCount(segs[k], testedPoint)
         + segCount(segs, k + 1, testedPoint)
RECURSIVE edgeCount(_, _, _, _)
edgeCount(D, face, k, testedPoint) ==
    IF k > Len(D.faces[face].incidentEdges) THEN 0
    ELSE segCount(D.halfEdges[D.faces[face].incidentEdges[k]].segments, 1, testedPoint)
         + edgeCount(D, face, k + 1, testedPoint)

\* the first face in the sequence of the wanted property, 0 if there is none
firstOf(seq, wanted) ==
    IF wanted = {} THEN 0 ELSE seq[CHOOSE i \in wanted : \A j \in wanted : i <= j]

\* the face of component cb that contains component ca, 0 for null
testInclusion(D, ca, cb) ==
    firstOf(D.components[cb].vertices,
        {i \in 1..Len(D.components[cb].vertices) :
            /\ D.components[cb].vertices[i] # D.components[cb].outerFace
            /\ jsRem(edgeCount(D, D.components[cb].vertices[i], 1,
                        getStartPoint(D.halfEdges[D.components[ca].edges[1]].segments[1])),
                     2) = 1})

\* the index of the entry of a Map for the key face, 0 if it has none
entryOf(outgoingEdges, face) ==
    IF \E k \in 1..Len(outgoingEdges) : outgoingEdges[k].face = face
    THEN CHOOSE k \in 1..Len(outgoingEdges) : outgoingEdges[k].face = face
    ELSE 0

\* a new tree that leaves every tree it encloses next to itself
adoptIntoNewTrees(out, rest, tree, face) ==
    [out |-> out, rest |-> Append(rest, tree)]

\* the loop of lines 1689-1700: out is newTree.outgoingEdges, rest the trees
\* pushed to newTrees after newTree
adoptInto(out, rest, tree, face) ==
    IF face = 0 THEN [out |-> out, rest |-> Append(rest, tree)]
    ELSE IF entryOf(out, face) # 0
    THEN [out |-> [out EXCEPT ![entryOf(out, face)].subtrees = Append(@, tree)],
          rest |-> rest]
    ELSE [out |-> Append(out, [face |-> face, subtrees |-> <<tree>>]), rest |-> rest]
RECURSIVE adopt(_, _, _, _, _)
adopt(D, trees, component, k, acc) ==
    IF k > Len(trees)
    THEN <<[component |-> component, outgoingEdges |-> acc.out]>> \o acc.rest
    ELSE adopt(D, trees, component, k + 1,
             Let(testInclusion(D, trees[k].component, component),
                 LAMBDA face : adoptInto(acc.out, acc.rest, trees[k], face)))

\* the faces testInclusion(component, tree.component) of the trees, in order
inclusions(D, trees, component) ==
    [i \in 1..Len(trees) |-> testInclusion(D, component, trees[i].component)]

\* insert(trees, component) of lines 1664-1703
RECURSIVE insert(_, _, _), insertUnder(_, _, _, _, _)
insert(D, trees, component) ==
    Let(inclusions(D, trees, component),
        LAMBDA faces :
            IF \E i \in 1..Len(trees) : faces[i] # 0
            THEN insertUnder(D, trees, component,
                     CHOOSE i \in 1..Len(trees) :
                         faces[i] # 0 /\ \A j \in 1..(i - 1) : faces[j] = 0,
                     faces)
            ELSE adopt(D, trees, component, 1, [out |-> <<>>, rest |-> <<>>]))
insertUnder(D, trees, component, i, faces) ==
    IF entryOf(trees[i].outgoingEdges, faces[i]) # 0
    THEN [trees EXCEPT ![i].outgoingEdges[entryOf(trees[i].outgoingEdges, faces[i])].subtrees =
                           insert(D, @, component)]
    ELSE [trees EXCEPT ![i].outgoingEdges = Append(@,
             [face |-> faces[i],
              subtrees |-> <<[component |-> component, outgoingEdges |-> <<>>]>>])]

\* lines 1705-1709
RECURSIVE insertAll(_, _, _)
insertAll(D, k, trees) ==
    IF k > Len(D.components) THEN trees
    ELSE insertAll(D, k + 1, Let(insert(D, trees, k), LAMBDA t : t))
computeNestingTree(D) == insertAll(D, 1, <<>>)

(***************************************************************************)
(* getFlag, flagFaces                                                      *)
(***************************************************************************)
\* getFlag with EvenOdd written as count % 2 === 1 ? 1 : 0
getFlagRemainderOne(count, fillRule) ==
    IF fillRule = "NonZero" THEN (IF count = 0 THEN 0 ELSE 1)
    ELSE (IF jsRem(count, 2) = 1 THEN 1 ELSE 0)

getFlag(count, fillRule) ==
    IF fillRule = "NonZero" THEN (IF count = 0 THEN 0 ELSE 1)
    ELSE (IF jsRem(count, 2) = 0 THEN 0 ELSE 1)

\* face.flag = aFlag | (bFlag << 1)
faceFlag(aRunningCount, bRunningCount, ruleA, ruleB) ==
    bitOr(getFlag(aRunningCount, ruleA), 2 * getFlag(bRunningCount, ruleB))

\* nextCount without the test of the parent bit
nextCountAnyParent(runningCount, edge, bit) ==
    runningCount + (IF edge.directionFlag THEN -1 ELSE 1)

\* lines 1747-1754: the running count of one parent bit across a half-edge
nextCount(runningCount, edge, bit) ==
    IF bitAnd(edge.parent, bit) # 0
    THEN runningCount + (IF edge.directionFlag THEN -1 ELSE 1)
    ELSE runningCount

\* st is [flag, visitedFaces, error, visits]: the flag of every face, the
\* WeakSet of the running visitTree call, the message of a failed assertion,
\* and the history of the calls of visitFace that got past line 1738, each
\* <<face, aRunningCount, bRunningCount>>
RECURSIVE visitTree(_, _, _, _, _, _, _), visitFace(_, _, _, _, _, _, _, _),
          visitFaceEdges(_, _, _, _, _, _, _, _, _), visitSubtrees(_, _, _, _, _, _, _, _),
          visitChildren(_, _, _, _, _, _, _, _)
visitTree(D, ruleA, ruleB, tree, aRunningCount, bRunningCount, st) ==
    [visitFace(D, ruleA, ruleB, tree, D.components[tree.component].outerFace,
               aRunningCount, bRunningCount, [st EXCEPT !.visitedFaces = {}])
        EXCEPT !.visitedFaces = st.visitedFaces]
visitFace(D, ruleA, ruleB, tree, face, aRunningCount, bRunningCount, st) ==
    IF st.error # "" \/ face \in st.visitedFaces THEN st
    ELSE visitChildren(D, ruleA, ruleB, tree, face, aRunningCount, bRunningCount,
             visitFaceEdges(D, ruleA, ruleB, tree, face, 1, aRunningCount, bRunningCount,
                 [st EXCEPT !.visitedFaces = @ \cup {face},
                            !.flag[face] = faceFlag(aRunningCount, bRunningCount,
                                                    ruleA, ruleB),
                            !.visits = Append(@, <<face, aRunningCount,
                                                   bRunningCount>>)]))
visitFaceEdges(D, ruleA, ruleB, tree, face, k, aRunningCount, bRunningCount, st) ==
    IF st.error # "" \/ k > Len(D.faces[face].incidentEdges) THEN st
    ELSE IF D.halfEdges[D.faces[face].incidentEdges[k]].twin = 0
    THEN [st EXCEPT !.error = "Edge doesn't have a twin."]
    ELSE visitFaceEdges(D, ruleA, ruleB, tree, face, k + 1, aRunningCount, bRunningCount,
             Let(visitFace(D, ruleA, ruleB, tree,
                     D.halfEdges[D.halfEdges[D.faces[face].incidentEdges[k]].twin].incidentVertex,
                     nextCount(aRunningCount, D.halfEdges[D.faces[face].incidentEdges[k]], 1),
                     nextCount(bRunningCount, D.halfEdges[D.faces[face].incidentEdges[k]], 2),
                     st),
                 LAMBDA t : t))
\* visitChildren with every subtree entered with the counts 0, 0
visitChildrenFromZero(D, ruleA, ruleB, tree, face, aRunningCount, bRunningCount, st) ==
    IF st.error # "" \/ entryOf(tree.outgoingEdges, face) = 0 THEN st
    ELSE visitSubtrees(D, ruleA, ruleB,
             tree.outgoingEdges[entryOf(tree.outgoingEdges, face)].subtrees,
             1, 0, 0, st)
visitChildren(D, ruleA, ruleB, tree, face, aRunningCount, bRunningCount, st) ==
    IF st.error # "" \/ entryOf(tree.outgoingEdges, face) = 0 THEN st
    ELSE visitSubtrees(D, ruleA, ruleB,
             tree.outgoingEdges[entryOf(tree.outgoingEdges, face)].subtrees,
             1, aRunningCount, bRunningCount, st)
visitSubtrees(D, ruleA, ruleB, subtrees, k, aRunningCount, bRunningCount, st) ==
    IF st.error # "" \/ k > Len(subtrees) THEN st
    ELSE visitSubtrees(D, ruleA, ruleB, subtrees, k + 1, aRunningCount, bRunningCount,
             Let(visitTree(D, ruleA, ruleB, subtrees[k], aRunningCount, bRunningCount, st),
                 LAMBDA t : t))

\* the loop of lines 1772-1774 from the state before any visit
visitForest(D, trees, ruleA, ruleB) ==
    visitSubtrees(D, ruleA, ruleB, trees, 1, 0, 0,
        [flag |-> [f \in 1..Len(D.faces) |-> D.faces[f].flag],
         visitedFaces |-> {}, error |-> "", visits |-> <<>>])

\* the dual graph with face.flag set, and error "" or the message of the
\* assertion that failed
flagFaces(D, trees, ruleA, ruleB) ==
    Let(visitForest(D, trees, ruleA, ruleB),
        LAMBDA st :
            [error |-> st.error,
             faces |-> [f \in 1..Len(D.faces) |-> [D.faces[f] EXCEPT !.flag = st.flag[f]]],
             halfEdges |-> D.halfEdges,
             components |-> D.components])

(***************************************************************************)
(* operationPredicates, getSelectedFaces, walkFaces, dumpFaces             *)
(***************************************************************************)
Operations == {"Union", "Difference", "Intersection", "Exclusion", "Division", "Fracture"}
FillRules == {"NonZero", "EvenOdd"}

\* operationPredicates with Division written as flag === 1
operationPredicatesDivisionOne(operation, flag) ==
    CASE operation = "Union" -> flag > 0
      [] operation = "Difference" -> flag = 1
      [] operation = "Intersection" -> flag = 3
      [] operation = "Exclusion" -> flag = 1 \/ flag = 2
      [] operation = "Division" -> flag = 1
      [] operation = "Fracture" -> flag > 0

operationPredicates(operation, flag) ==
    CASE operation = "Union" -> flag > 0
      [] operation = "Difference" -> flag = 1
      [] operation = "Intersection" -> flag = 3
      [] operation = "Exclusion" -> flag = 1 \/ flag = 2
      [] operation = "Division" -> bitAnd(flag, 1) = 1
      [] operation = "Fracture" -> flag > 0

\* the faces yielded, in order
RECURSIVE getSelectedFaces(_, _, _), selectedInSubtrees(_, _, _, _, _)
getSelectedFaces(D, trees, operation) ==
    IF trees = <<>> THEN <<>>
    ELSE SelectSeq(D.components[trees[1].component].vertices,
                   LAMBDA face : operationPredicates(operation, D.faces[face].flag))
         \o selectedInSubtrees(D, trees[1].outgoingEdges, 1, 1, operation)
         \o getSelectedFaces(D, Tail(trees), operation)
selectedInSubtrees(D, entries, k, j, operation) ==
    IF k > Len(entries) THEN <<>>
    ELSE IF j > Len(entries[k].subtrees)
    THEN selectedInSubtrees(D, entries, k + 1, 1, operation)
    ELSE getSelectedFaces(D, <<entries[k].subtrees[j]>>, operation)
         \o selectedInSubtrees(D, entries, k, j + 1, operation)

\* the cyclic successor of an edge in a list of incident edges
successorIn(incident, edge) ==
    incident[((CHOOSE i \in 1..Len(incident) : incident[i] = edge) % Len(incident)) + 1]

\* edgeToNext.get(edge), lines 1808-1815
edgeToNext(D, edge) ==
    successorIn(D.faces[D.halfEdges[edge].incidentVertex].incidentEdges, edge)

isRemovedEdge(D, faces, edge) ==
    (D.halfEdges[edge].incidentVertex \in faces)
        = (D.halfEdges[D.halfEdges[edge].twin].incidentVertex \in faces)

\* the while loop of lines 1831-1834
RECURSIVE skipRemoved(_, _, _)
skipRemoved(D, faces, edge) ==
    IF isRemovedEdge(D, faces, edge)
    THEN skipRemoved(D, faces, edgeToNext(D, D.halfEdges[edge].twin))
    ELSE edge

\* the do-while loop of lines 1823-1836; w is [out, visitedEdges, walked]:
\* the segments yielded, the WeakSet, and the half-edges in the order in
\* which line 1829 adds them to it
RECURSIVE walkBoundary(_, _, _, _, _)
walkBoundary(D, faces, startEdge, edge, w) ==
    IF skipRemoved(D, faces, edgeToNext(D, edge)) # startEdge
    THEN walkBoundary(D, faces, startEdge, skipRemoved(D, faces, edgeToNext(D, edge)),
             Let([out |-> w.out \o emitSegments(D.halfEdges[edge]),
                  visitedEdges |-> w.visitedEdges \cup {edge},
                  walked |-> Append(w.walked, edge)],
                 LAMBDA t : t))
    ELSE [out |-> w.out \o emitSegments(D.halfEdges[edge]),
          visitedEdges |-> w.visitedEdges \cup {edge},
          walked |-> Append(w.walked, edge)]

\* walkFrom without the test of visitedEdges in line 1820
RECURSIVE walkFromRevisiting(_, _, _, _, _)
walkFromRevisiting(D, faceSeq, f, k, w) ==
    IF f > Len(faceSeq) THEN w
    ELSE IF k > Len(D.faces[faceSeq[f]].incidentEdges)
    THEN walkFromRevisiting(D, faceSeq, f + 1, 1, w)
    ELSE IF isRemovedEdge(D, Range(faceSeq), D.faces[faceSeq[f]].incidentEdges[k])
    THEN walkFromRevisiting(D, faceSeq, f, k + 1, w)
    ELSE walkFromRevisiting(D, faceSeq, f, k + 1,
             Let(walkBoundary(D, Range(faceSeq), D.faces[faceSeq[f]].incidentEdges[k],
                              D.faces[faceSeq[f]].incidentEdges[k], w),
                 LAMBDA t : t))

\* the loops of lines 1818-1838 from incident edge k of face f on
RECURSIVE walkFrom(_, _, _, _, _)
walkFrom(D, faceSeq, f, k, w) ==
    IF f > Len(faceSeq) THEN w
    ELSE IF k > Len(D.faces[faceSeq[f]].incidentEdges) THEN walkFrom(D, faceSeq, f + 1, 1, w)
    ELSE IF \/ isRemovedEdge(D, Range(faceSeq), D.faces[faceSeq[f]].incidentEdges[k])
            \/ D.faces[faceSeq[f]].incidentEdges[k] \in w.visitedEdges
    THEN walkFrom(D, faceSeq, f, k + 1, w)
    ELSE walkFrom(D, faceSeq, f, k + 1,
             Let(walkBoundary(D, Range(faceSeq), D.faces[faceSeq[f]].incidentEdges[k],
                              D.faces[faceSeq[f]].incidentEdges[k], w),
                 LAMBDA t : t))

\* the walk of walkFaces over the faces in the order of the Set
walkAll(D, faceSeq) ==
    walkFrom(D, faceSeq, 1, 1, [out |-> <<>>, visitedEdges |-> {}, walked |-> <<>>])

\* everything walkFaces yields
walkFaces(D, faceSeq) == walkAll(D, faceSeq).out

\* lines 1863-1876: the outer-face boundaries of the subtrees from j on
RECURSIVE pokeHoles(_, _, _)
pokeHoles(D, subtrees, j) ==
    IF j > Len(subtrees) THEN <<>>
    ELSE faceBoundary(D, D.components[subtrees[j].component].outerFace, 1)
         \o pokeHoles(D, subtrees, j + 1)

\* tree.outgoingEdges.get(face), the empty list where the Map has no entry
subtreesOf(tree, face) ==
    IF entryOf(tree.outgoingEdges, face) = 0 THEN <<>>
    ELSE tree.outgoingEdges[entryOf(tree.outgoingEdges, face)].subtrees

\* dumpedFaces without the test for the outer face
dumpedFacesWithOuter(D, tree, operation) ==
    SelectSeq(D.components[tree.component].vertices,
              LAMBDA face : operationPredicates(operation, D.faces[face].flag))

\* the faces of one tree's component that get a path, lines 1849-1852
dumpedFaces(D, tree, operation) ==
    SelectSeq(D.components[tree.component].vertices,
              LAMBDA face : /\ operationPredicates(operation, D.faces[face].flag)
                            /\ face # D.components[tree.component].outerFace)

\* dumpTree without the holes of lines 1863-1876
dumpTreeWithoutHoles(D, tree, operation) ==
    [i \in 1..Len(dumpedFaces(D, tree, operation)) |->
        [face |-> dumpedFaces(D, tree, operation)[i],
         path |-> faceBoundary(D, dumpedFaces(D, tree, operation)[i], 1)]]

\* lines 1849-1879 for one tree
dumpTree(D, tree, operation) ==
    [i \in 1..Len(dumpedFaces(D, tree, operation)) |->
        [face |-> dumpedFaces(D, tree, operation)[i],
         path |-> faceBoundary(D, dumpedFaces(D, tree, operation)[i], 1)
                  \o pokeHoles(D, subtreesOf(tree, dumpedFaces(D, tree, operation)[i]), 1)]]

\* dumpFaces: the sequence of [face, path], one entry per path pushed
RECURSIVE dumpFaces(_, _, _), dumpSubtrees(_, _, _, _, _)
dumpFaces(D, trees, operation) ==
    IF trees = <<>> THEN <<>>
    ELSE dumpTree(D, trees[1], operation)
         \o dumpSubtrees(D, trees[1].outgoingEdges, 1, 1, operation)
         \o dumpFaces(D, Tail(trees), operation)
dumpSubtrees(D, entries, k, j, operation) ==
    IF k > Len(entries) THEN <<>>
    ELSE IF j > Len(entries[k].subtrees) THEN dumpSubtrees(D, entries, k + 1, 1, operation)
    ELSE dumpFaces(D, <<entries[k].subtrees[j]>>, operation)
         \o dumpSubtrees(D, entries, k, j + 1, operation)

(***************************************************************************)
(* Inputs of pathBoolean                                                   *)
(*                                                                         *)
(* A closed sub-path is what pathFromCommands yields for M p1 L p2 .. Z.   *)
(* An input path is empty, one shape, or two consecutive shapes of the     *)
(* catalogue one after the other.                                          *)
(***************************************************************************)
rect(x0, y0, x1, y1) == <<(<<x0, y0>>), (<<x1, y0>>), (<<x1, y1>>), (<<x0, y1>>)>>
\* the same loop walked the other way round from the same first point
reversedLoop(pts) == <<pts[1]>> \o [i \in 1..(Len(pts) - 1) |-> pts[Len(pts) + 1 - i]]
closedPath(pts) == [i \in 1..Len(pts) |-> <<"L", pts[i], pts[(i % Len(pts)) + 1]>>]

Shapes ==
    <<closedPath(rect(0, 0, 4, 4)),
      closedPath(rect(1, 1, 3, 3)),
      closedPath(rect(4, 0, 6, 4)),
      closedPath(rect(2, 2, 6, 6)),
      closedPath(reversedLoop(rect(0, 0, 4, 4))),
      closedPath(rect(4, 4, 6, 6)),
      \* two squares joined by a bridge, with a tail that ends nowhere
      closedPath(rect(1, 1, 3, 3)) \o <<(<<"L", <<3, 3>>, <<4, 3>>>>)>>
          \o closedPath(rect(4, 0, 6, 4)) \o <<(<<"L", <<6, 4>>, <<7, 4>>>>)>>,
      \* two open paths that close a square between them: M 0,1 L 1,1 L 3,1
      \* L 3,3 and M 3,3 L 1,3 L 1,1
      <<(<<"L", <<0, 1>>, <<1, 1>>>>), (<<"L", <<1, 1>>, <<3, 1>>>>),
        (<<"L", <<3, 1>>, <<3, 3>>>>)>>,
      <<(<<"L", <<3, 3>>, <<1, 3>>>>), (<<"L", <<1, 3>>, <<1, 1>>>>)>>,
      closedPath(reversedLoop(rect(4, 0, 6, 4)))>>

NumShapes == 9

InputPaths ==
    {<<>>} \cup {Shapes[i] : i \in 1..NumShapes}
           \cup {Shapes[i] \o Shapes[i + 1] : i \in 1..(NumShapes - 1)}

(***************************************************************************)
(* pathBoolean, one action per stage                                       *)
(***************************************************************************)
EmptyMajor == [vertices |-> <<>>, edges |-> <<>>]
EmptyMinor == [error |-> "", vpool |-> <<>>, epool |-> <<>>, vertices |-> <<>>,
               edges |-> <<>>, cycles |-> <<>>]
EmptyDual == [error |-> "", faces |-> <<>>, halfEdges |-> <<>>, components |-> <<>>]

InitBool ==
    /\ a \in InputPaths /\ b \in InputPaths
    /\ aFillRule = "unread"
    /\ bFillRule = "unread"
    /\ op = "unread"
    /\ pc = "splitAtIntersections"
    /\ splitEdges = <<>>
    /\ totalBoundingBox = <<>>
    /\ majorGraph = EmptyMajor
    /\ minorGraph = EmptyMinor
    /\ dual = EmptyDual
    /\ nestingTrees = <<>>
    /\ result = <<>>
    /\ emitted = <<>>
    /\ selectedFaces = <<>>
    /\ thrown = ""

IdleBool ==
    /\ a = <<>> /\ b = <<>>
    /\ aFillRule = "unread"
    /\ bFillRule = "unread"
    /\ op = "unread"
    /\ pc = "idle"
    /\ splitEdges = <<>>
    /\ totalBoundingBox = <<>>
    /\ majorGraph = EmptyMajor
    /\ minorGraph = EmptyMinor
    /\ dual = EmptyDual
    /\ nestingTrees = <<>>
    /\ result = <<>>
    /\ emitted = <<>>
    /\ selectedFaces = <<>>
    /\ thrown = ""

\* lines 1958-1961
unsplitEdgesOf(pa, pb) ==
    [i \in 1..Len(pa) |-> segmentToEdge(1, pa[i])]
        \o [i \in 1..Len(pb) |-> segmentToEdge(2, pb[i])]

\* lines 1992-2006: the switch on the operation over the flagged faces; what
\* is returned is result, selectedFaces the faces it was extracted from
extractFaces(D, trees, operation) ==
    IF operation \in {"Division", "Fracture"}
    THEN Let(dumpFaces(D, trees, operation),
             LAMBDA dumped :
                 [thrown |-> "", dual |-> D,
                  selectedFaces |-> [i \in 1..Len(dumped) |-> dumped[i].face],
                  result |-> [i \in 1..Len(dumped) |-> dumped[i].path]])
    ELSE Let(getSelectedFaces(D, trees, operation),
             LAMBDA selected :
                 [thrown |-> "", dual |-> D, selectedFaces |-> selected,
                  result |-> <<walkFaces(D, selected)>>])

\* the call ends in the error of a failed assertion
threw(message) ==
    [thrown |-> message, dual |-> EmptyDual, selectedFaces |-> <<>>, result |-> <<>>]

\* lines 1986-2006 of pathBoolean, from the dual graph on
flagAndExtract(D, ruleA, ruleB, operation) ==
    IF D.error # "" THEN threw(D.error)
    ELSE Let(computeNestingTree(D),
             LAMBDA trees :
                 Let(flagFaces(D, trees, ruleA, ruleB),
                     LAMBDA flagged :
                         IF flagged.error # "" THEN threw(flagged.error)
                         ELSE extractFaces(flagged, trees, operation)))

\* pathBoolean as one function of its arguments: the stages one after the other
pathBoolean(pa, ruleA, pb, ruleB, operation) ==
    Let(splitAtIntersections(unsplitEdgesOf(pa, pb)),
        LAMBDA split :
            IF split.totalBoundingBox = <<>>
            THEN [thrown |-> "", dual |-> EmptyDual, selectedFaces |-> <<>>, result |-> <<>>]
            ELSE Let(computeMinor(findVertices(split.edges)),
                     LAMBDA minor :
                         IF minor.error # "" THEN threw(minor.error)
                         ELSE flagAndExtract(
                                  computeDual(sortOutgoingEdgesByAngle(
                                      removeDanglingEdges(minor))),
                                  ruleA, ruleB, operation)))

\* SplitAtIntersections without the early return for empty input geometry
SplitAtIntersectionsNoEarlyReturn ==
    /\ pc = "splitAtIntersections"
    /\ \E r \in {splitAtIntersections(unsplitEdgesOf(a, b))} :
          /\ splitEdges' = r.edges
          /\ totalBoundingBox' = r.totalBoundingBox
    /\ pc' = "findVertices"
    /\ UNCHANGED <<a, b, aFillRule, bFillRule, op, majorGraph, minorGraph, dual,
                   nestingTrees, result, emitted, selectedFaces, thrown>>
    /\ UNCHANGED <<flagVars, cmdVars, toVars, fvVars, callVars, qtVars, pairVars, dataVars>>

\* lines 1958-1972: the edges are built and split; an empty input returns []
SplitAtIntersections ==
    /\ pc = "splitAtIntersections"
    /\ \E r \in {splitAtIntersections(unsplitEdgesOf(a, b))} :
          /\ splitEdges' = r.edges
          /\ totalBoundingBox' = r.totalBoundingBox
          /\ pc' = IF r.totalBoundingBox = <<>> THEN "done" ELSE "findVertices"
    /\ UNCHANGED <<a, b, aFillRule, bFillRule, op, majorGraph, minorGraph, dual,
                   nestingTrees, result, emitted, selectedFaces, thrown>>
    /\ UNCHANGED <<flagVars, cmdVars, toVars, fvVars, callVars, qtVars, pairVars, dataVars>>

FindVertices ==
    /\ pc = "findVertices"
    /\ majorGraph' = findVertices(splitEdges)
    /\ pc' = "computeMinor"
    /\ UNCHANGED <<a, b, aFillRule, bFillRule, op, splitEdges, totalBoundingBox,
                   minorGraph, dual, nestingTrees, result, emitted, selectedFaces,
                   thrown>>
    /\ UNCHANGED <<flagVars, cmdVars, toVars, fvVars, callVars, qtVars, pairVars, dataVars>>

\* an assertion of computeMinor that fails ends the call
ComputeMinor ==
    /\ pc = "computeMinor"
    /\ minorGraph' = computeMinor(majorGraph)
    /\ thrown' = minorGraph'.error
    /\ pc' = IF minorGraph'.error # "" THEN "threw" ELSE "removeDanglingEdges"
    /\ UNCHANGED <<a, b, aFillRule, bFillRule, op, splitEdges, totalBoundingBox,
                   majorGraph, dual, nestingTrees, result, emitted, selectedFaces>>
    /\ UNCHANGED <<flagVars, cmdVars, toVars, fvVars, callVars, qtVars, pairVars, dataVars>>

RemoveDanglingEdges ==
    /\ pc = "removeDanglingEdges"
    /\ minorGraph' = removeDanglingEdges(minorGraph)
    /\ pc' = "sortOutgoingEdgesByAngle"
    /\ UNCHANGED <<a, b, aFillRule, bFillRule, op, splitEdges, totalBoundingBox,
                   majorGraph, dual, nestingTrees, result, emitted, selectedFaces,
                   thrown>>
    /\ UNCHANGED <<flagVars, cmdVars, toVars, fvVars, callVars, qtVars, pairVars, dataVars>>

SortOutgoingEdgesByAngle ==
    /\ pc = "sortOutgoingEdgesByAngle"
    /\ minorGraph' = sortOutgoingEdgesByAngle(minorGraph)
    /\ pc' = "computeDual"
    /\ UNCHANGED <<a, b, aFillRule, bFillRule, op, splitEdges, totalBoundingBox,
                   majorGraph, dual, nestingTrees, result, emitted, selectedFaces,
                   thrown>>
    /\ UNCHANGED <<flagVars, cmdVars, toVars, fvVars, callVars, qtVars, pairVars, dataVars>>

\* an assertion of computeDual that fails ends the call
ComputeDual ==
    /\ pc = "computeDual"
    /\ dual' = computeDual(minorGraph)
    /\ thrown' = dual'.error
    /\ pc' = IF dual'.error # "" THEN "threw" ELSE "computeNestingTree"
    /\ UNCHANGED <<a, b, aFillRule, bFillRule, op, splitEdges, totalBoundingBox,
                   majorGraph, minorGraph, nestingTrees, result, emitted,
                   selectedFaces>>
    /\ UNCHANGED <<flagVars, cmdVars, toVars, fvVars, callVars, qtVars, pairVars, dataVars>>

ComputeNestingTree ==
    /\ pc = "computeNestingTree"
    /\ nestingTrees' = computeNestingTree(dual)
    /\ pc' = "flagFaces"
    /\ UNCHANGED <<a, b, aFillRule, bFillRule, op, splitEdges, totalBoundingBox,
                   majorGraph, minorGraph, dual, result, emitted, selectedFaces,
                   thrown>>
    /\ UNCHANGED <<flagVars, cmdVars, toVars, fvVars, callVars, qtVars, pairVars, dataVars>>

\* flagFaces is the first stage to read the fill rules
FlagFaces ==
    /\ pc = "flagFaces"
    /\ \E ruleA \in FillRules, ruleB \in FillRules :
          /\ aFillRule' = ruleA
          /\ bFillRule' = ruleB
          /\ dual' = flagFaces(dual, nestingTrees, ruleA, ruleB)
    /\ thrown' = dual'.error
    /\ pc' = IF dual'.error # "" THEN "threw" ELSE "select"
    /\ UNCHANGED <<a, b, op, splitEdges, totalBoundingBox, majorGraph, minorGraph,
                   nestingTrees, result, emitted, selectedFaces>>
    /\ UNCHANGED <<flagVars, cmdVars, toVars, fvVars, callVars, qtVars, pairVars, dataVars>>

\* case Division, Fracture: return dumpFaces(nestingTrees, predicate)
ReturnDumpFaces ==
    /\ pc = "select"
    /\ \E operation \in {"Division", "Fracture"} :
          /\ op' = operation
          /\ \E dumped \in {dumpFaces(dual, nestingTrees, operation)} :
                /\ result' = [i \in 1..Len(dumped) |-> dumped[i].path]
                /\ emitted' = [i \in 1..Len(dumped) |-> dumped[i].face]
    /\ pc' = "done"
    /\ UNCHANGED <<a, b, aFillRule, bFillRule, splitEdges, totalBoundingBox,
                   majorGraph, minorGraph, dual, nestingTrees, selectedFaces, thrown>>
    /\ UNCHANGED <<flagVars, cmdVars, toVars, fvVars, callVars, qtVars, pairVars, dataVars>>

\* default: return [[...walkFaces(new Set(getSelectedFaces(nestingTrees, predicate)))]]
ReturnWalkFaces ==
    /\ pc = "select"
    /\ \E operation \in Operations \ {"Division", "Fracture"} :
          /\ op' = operation
          /\ selectedFaces' = getSelectedFaces(dual, nestingTrees, operation)
    /\ result' = <<walkFaces(dual, selectedFaces')>>
    /\ pc' = "done"
    /\ UNCHANGED <<a, b, aFillRule, bFillRule, splitEdges, totalBoundingBox,
                   majorGraph, minorGraph, dual, nestingTrees, emitted, thrown>>
    /\ UNCHANGED <<flagVars, cmdVars, toVars, fvVars, callVars, qtVars, pairVars, dataVars>>

NextBool ==
    \/ SplitAtIntersections
    \/ FindVertices
    \/ ComputeMinor
    \/ RemoveDanglingEdges
    \/ SortOutgoingEdgesByAngle
    \/ ComputeDual
    \/ ComputeNestingTree
    \/ FlagFaces
    \/ ReturnDumpFaces
    \/ ReturnWalkFaces

(***************************************************************************)
(* One visitFace step of flagFaces and one operation predicate, over       *)
(* running counts of either sign                                           *)
(***************************************************************************)
MaxCount == 3

IdleFlag ==
    /\ fpc = "idle"
    /\ aCount = 0
    /\ bCount = 0
    /\ fRuleA = "NonZero"
    /\ fRuleB = "NonZero"
    /\ fFlag = 0
    /\ fOp = "unread"
    /\ fSelected = FALSE

InitFlag ==
    /\ fpc = "visitFace"
    /\ aCount \in (-MaxCount)..MaxCount
    /\ bCount \in (-MaxCount)..MaxCount
    /\ fRuleA \in FillRules
    /\ fRuleB \in FillRules
    /\ fFlag = 0
    /\ fOp = "unread"
    /\ fSelected = FALSE

\* lines 1738-1742 of visitFace
VisitFace ==
    /\ fpc = "visitFace"
    /\ fFlag' = faceFlag(aCount, bCount, fRuleA, fRuleB)
    /\ fpc' = "predicate"
    /\ UNCHANGED <<aCount, bCount, fRuleA, fRuleB, fOp, fSelected>>
    /\ UNCHANGED <<boolVars, cmdVars, toVars, fvVars, callVars, qtVars, pairVars, dataVars>>

\* operationPredicates[op](face)
Predicate ==
    /\ fpc = "predicate"
    /\ \E operation \in Operations :
          /\ fOp' = operation
          /\ fSelected' = operationPredicates(operation, fFlag)
    /\ fpc' = "done"
    /\ UNCHANGED <<aCount, bCount, fRuleA, fRuleB, fFlag>>
    /\ UNCHANGED <<boolVars, cmdVars, toVars, fvVars, callVars, qtVars, pairVars, dataVars>>

NextFlag ==
    \/ VisitFace
    \/ Predicate

(***************************************************************************)
(* toAbsoluteCommands, pathFromCommands                                    *)
(*                                                                         *)
(* A command is the tuple of the source, cmd[k] being element k + 1.  The  *)
(* commands come from an iterable: each step takes the next one, converts  *)
(* it to its absolute form and handles it.                                 *)
(***************************************************************************)
MaxCommands == 4

PathCommands ==
    {<<"M", <<1, 2>>>>, <<"L", <<3, 1>>>>, <<"C", <<1, 1>>, <<2, 1>>, <<3, 3>>>>,
     <<"S", <<2, 2>>, <<4, 1>>>>, <<"Q", <<1, 3>>, <<2, 4>>>>, <<"T", <<5, 2>>>>,
     <<"A", 1, 2, 0, FALSE, TRUE, <<4, 4>>>>, <<"Z">>, <<"z">>,
     <<"H", 5>>, <<"V", 6>>, <<"m", 1, 1>>, <<"l", 2, -1>>, <<"h", 3>>, <<"v", -2>>,
     <<"c", 1, 0, 2, 1, 3, 3>>, <<"s", 1, 1, 2, 0>>, <<"q", 1, 2, 2, 2>>,
     <<"t", 1, -1>>, <<"a", 1, 1, 0, TRUE, FALSE, 2, 2>>}

\* lastPoint + [dx, dy]
offset(point, dx, dy) == <<point[1] + dx, point[2] + dy>>

\* one iteration of the loop of toAbsoluteCommands: the command yielded and
\* the new lastPoint and firstPoint
toAbsoluteCommand(cmd, last, first) ==
    CASE cmd[1] = "M" -> [cmd |-> cmd, lastPoint |-> cmd[2], firstPoint |-> cmd[2]]
      [] cmd[1] = "L" -> [cmd |-> cmd, lastPoint |-> cmd[2], firstPoint |-> first]
      [] cmd[1] = "C" -> [cmd |-> cmd, lastPoint |-> cmd[4], firstPoint |-> first]
      [] cmd[1] = "S" -> [cmd |-> cmd, lastPoint |-> cmd[3], firstPoint |-> first]
      [] cmd[1] = "Q" -> [cmd |-> cmd, lastPoint |-> cmd[3], firstPoint |-> first]
      [] cmd[1] = "T" -> [cmd |-> cmd, lastPoint |-> cmd[2], firstPoint |-> first]
      [] cmd[1] = "A" -> [cmd |-> cmd, lastPoint |-> cmd[7], firstPoint |-> first]
      [] cmd[1] \in {"Z", "z"} ->
            [cmd |-> <<"Z">>, lastPoint |-> first, firstPoint |-> first]
      [] cmd[1] = "H" ->
            [cmd |-> <<"L", <<cmd[2], last[2]>>>>, lastPoint |-> <<cmd[2], last[2]>>,
             firstPoint |-> first]
      [] cmd[1] = "V" ->
            [cmd |-> <<"L", <<last[1], cmd[2]>>>>, lastPoint |-> <<last[1], cmd[2]>>,
             firstPoint |-> first]
      [] cmd[1] = "m" ->
            [cmd |-> <<"M", offset(last, cmd[2], cmd[3])>>,
             lastPoint |-> offset(last, cmd[2], cmd[3]),
             firstPoint |-> offset(last, cmd[2], cmd[3])]
      [] cmd[1] = "l" ->
            [cmd |-> <<"L", offset(last, cmd[2], cmd[3])>>,
             lastPoint |-> offset(last, cmd[2], cmd[3]), firstPoint |-> first]
      [] cmd[1] = "h" ->
            [cmd |-> <<"L", offset(last, cmd[2], 0)>>,
             lastPoint |-> offset(last, cmd[2], 0), firstPoint |-> first]
      [] cmd[1] = "v" ->
            [cmd |-> <<"L", offset(last, 0, cmd[2])>>,
             lastPoint |-> offset(last, 0, cmd[2]), firstPoint |-> first]
      [] cmd[1] = "c" ->
            [cmd |-> <<"C", offset(last, cmd[2], cmd[3]), offset(last, cmd[4], cmd[5]),
                       offset(last, cmd[6], cmd[7])>>,
             lastPoint |-> offset(last, cmd[6], cmd[7]), firstPoint |-> first]
      [] cmd[1] = "s" ->
            [cmd |-> <<"S", offset(last, cmd[2], cmd[3]), offset(last, cmd[4], cmd[5])>>,
             lastPoint |-> offset(last, cmd[4], cmd[5]), firstPoint |-> first]
      [] cmd[1] = "q" ->
            [cmd |-> <<"Q", offset(last, cmd[2], cmd[3]), offset(last, cmd[4], cmd[5])>>,
             lastPoint |-> offset(last, cmd[4], cmd[5]), firstPoint |-> first]
      [] cmd[1] = "t" ->
            [cmd |-> <<"T", offset(last, cmd[2], cmd[3])>>,
             lastPoint |-> offset(last, cmd[2], cmd[3]), firstPoint |-> first]
      [] cmd[1] = "a" ->
            [cmd |-> <<"A", cmd[2], cmd[3], cmd[4], cmd[5], cmd[6],
                       offset(last, cmd[7], cmd[8])>>,
             lastPoint |-> offset(last, cmd[7], cmd[8]), firstPoint |-> first]

reflectControlPoint(point, controlPoint) ==
    <<2 * point[1] - controlPoint[1], 2 * point[2] - controlPoint[2]>>

\* badSequence() is called for the absolute command cmd
badSequence(cmd, first, last, control) ==
    CASE cmd[1] = "M" -> FALSE
      [] cmd[1] \in {"L", "C", "Q", "A"} -> last = <<>>
      [] cmd[1] \in {"S", "T"} -> last = <<>> \/ control = <<>>
      [] cmd[1] \in {"Z", "z"} -> last = <<>> \/ first = <<>>

\* yielded with the segment of a close drawn from the sub-path start to the
\* current point
yieldedCloseReversed(cmd, first, last, control) ==
    CASE cmd[1] = "M" -> <<>>
      [] cmd[1] = "L" -> <<(<<"L", last, cmd[2]>>)>>
      [] cmd[1] = "C" -> <<(<<"C", last, cmd[2], cmd[3], cmd[4]>>)>>
      [] cmd[1] = "S" -> <<(<<"C", last, reflectControlPoint(last, control), cmd[2], cmd[3]>>)>>
      [] cmd[1] = "Q" -> <<(<<"Q", last, cmd[2], cmd[3]>>)>>
      [] cmd[1] = "T" -> <<(<<"Q", last, reflectControlPoint(last, control), cmd[2]>>)>>
      [] cmd[1] = "A" ->
            <<(<<"A", last, cmd[2], cmd[3], cmd[4], cmd[5], cmd[6], cmd[7]>>)>>
      [] cmd[1] \in {"Z", "z"} -> <<(<<"L", first, last>>)>>

\* the segment yielded for the absolute command cmd, <<>> for a move-to
yielded(cmd, first, last, control) ==
    CASE cmd[1] = "M" -> <<>>
      [] cmd[1] = "L" -> <<(<<"L", last, cmd[2]>>)>>
      [] cmd[1] = "C" -> <<(<<"C", last, cmd[2], cmd[3], cmd[4]>>)>>
      [] cmd[1] = "S" -> <<(<<"C", last, reflectControlPoint(last, control), cmd[2], cmd[3]>>)>>
      [] cmd[1] = "Q" -> <<(<<"Q", last, cmd[2], cmd[3]>>)>>
      [] cmd[1] = "T" -> <<(<<"Q", last, reflectControlPoint(last, control), cmd[2]>>)>>
      [] cmd[1] = "A" ->
            <<(<<"A", last, cmd[2], cmd[3], cmd[4], cmd[5], cmd[6], cmd[7]>>)>>
      [] cmd[1] \in {"Z", "z"} -> <<(<<"L", last, first>>)>>

\* lastPoint, firstPoint and lastControlPoint after the absolute command cmd
nextLastPoint(cmd, first) ==
    CASE cmd[1] \in {"M", "L", "T"} -> cmd[2]
      [] cmd[1] \in {"S", "Q"} -> cmd[3]
      [] cmd[1] = "C" -> cmd[4]
      [] cmd[1] = "A" -> cmd[7]
      [] cmd[1] \in {"Z", "z"} -> first
nextFirstPoint(cmd, first) == IF cmd[1] = "M" THEN cmd[2] ELSE first
nextControlPoint(cmd, last, control) ==
    CASE cmd[1] \in {"M", "L", "A", "Z", "z"} -> <<>>
      [] cmd[1] = "C" -> cmd[3]
      [] cmd[1] \in {"S", "Q"} -> cmd[2]
      [] cmd[1] = "T" -> reflectControlPoint(last, control)

IdleCmd ==
    /\ commands = <<>>
    /\ absLastPoint = <<0, 0>>
    /\ absFirstPoint = <<0, 0>>
    /\ firstPoint = <<>>
    /\ lastPoint = <<>>
    /\ lastControlPoint = <<>>
    /\ segments = <<>>
    /\ cmdStatus = "idle"

InitCmd ==
    /\ commands = <<>>
    /\ absLastPoint = <<0, 0>>
    /\ absFirstPoint = <<0, 0>>
    /\ firstPoint = <<>>
    /\ lastPoint = <<>>
    /\ lastControlPoint = <<>>
    /\ segments = <<>>
    /\ cmdStatus = "running"

\* one iteration of the loop of pathFromCommands over toAbsoluteCommands
PathFromCommand ==
    /\ cmdStatus = "running"
    /\ Len(commands) < MaxCommands
    /\ \E cmd \in PathCommands :
          /\ commands' = Append(commands, cmd)
          /\ \E abs \in {toAbsoluteCommand(cmd, absLastPoint, absFirstPoint)} :
                /\ absLastPoint' = abs.lastPoint
                /\ absFirstPoint' = abs.firstPoint
                /\ IF badSequence(abs.cmd, firstPoint, lastPoint, lastControlPoint)
                   THEN /\ cmdStatus' = "threw"
                        /\ UNCHANGED <<firstPoint, lastPoint, lastControlPoint, segments>>
                   ELSE /\ segments' = segments \o yielded(abs.cmd, firstPoint, lastPoint,
                                                           lastControlPoint)
                        /\ lastPoint' = nextLastPoint(abs.cmd, firstPoint)
                        /\ firstPoint' = nextFirstPoint(abs.cmd, firstPoint)
                        /\ lastControlPoint' = nextControlPoint(abs.cmd, lastPoint,
                                                                lastControlPoint)
                        /\ UNCHANGED cmdStatus
    /\ UNCHANGED <<boolVars, flagVars, toVars, fvVars, callVars, qtVars, pairVars, dataVars>>

\* the iterable is exhausted: the generator returns
EndOfCommands ==
    /\ cmdStatus = "running"
    /\ cmdStatus' = "done"
    /\ UNCHANGED <<commands, absLastPoint, absFirstPoint, firstPoint, lastPoint,
                   lastControlPoint, segments>>
    /\ UNCHANGED <<boolVars, flagVars, toVars, fvVars, callVars, qtVars, pairVars, dataVars>>

NextCmd ==
    \/ PathFromCommand
    \/ EndOfCommands

(***************************************************************************)
(* pathToCommands.  The coordinates of this part are whole multiples of a  *)
(* unit and eps is a whole number of units, so that joints closer than     *)
(* eps, exactly eps apart and farther apart all occur; every difference    *)
(* and comparison is exact.  The default eps of 1e-4 is 2 units of 5e-5.   *)
(***************************************************************************)
MaxSegments == 3
MaxEps == 2

\* segments of all four kinds
PathSegments ==
    {<<"L", <<0, 0>>, <<4, 0>>>>, <<"L", <<4, 0>>, <<4, 4>>>>,
     <<"L", <<5, 0>>, <<0, 0>>>>, <<"L", <<4, 2>>, <<6, 0>>>>,
     <<"L", <<6, 1>>, <<0, 0>>>>, <<"L", <<7, 0>>, <<4, 0>>>>,
     <<"C", <<4, 0>>, <<5, 1>>, <<5, 3>>, <<4, 4>>>>,
     <<"Q", <<4, 4>>, <<2, 6>>, <<0, 0>>>>,
     <<"A", <<0, 0>>, 2, 2, 0, FALSE, TRUE, <<4, 0>>>>}

\* vectorsEqual(a, b, eps) for eps a number of coordinate units
vectorsEqualWithin(p, q, eps) == Abs(p[1] - q[1]) < eps /\ Abs(p[2] - q[2]) < eps

\* the drawing command yielded for a segment, lines 111-132
drawingCommand(seg) ==
    CASE seg[1] = "L" -> <<"L", seg[3]>>
      [] seg[1] = "C" -> <<"C", seg[3], seg[4], seg[5]>>
      [] seg[1] = "Q" -> <<"Q", seg[3], seg[4]>>
      [] seg[1] = "A" -> <<"A", seg[3], seg[4], seg[5], seg[6], seg[7], seg[8]>>

\* the end point the switch assigns to lastPoint
segmentEnd(seg) ==
    CASE seg[1] = "L" -> seg[3]
      [] seg[1] = "C" -> seg[5]
      [] seg[1] = "Q" -> seg[4]
      [] seg[1] = "A" -> seg[8]

IdleTo ==
    /\ toSegments = <<>>
    /\ toEps = 0
    /\ toLastPoint = <<>>
    /\ toCommands = <<>>
    /\ toStatus = "idle"

InitTo ==
    /\ toSegments = <<>>
    /\ toEps \in 0..MaxEps
    /\ toLastPoint = <<>>
    /\ toCommands = <<>>
    /\ toStatus = "running"

\* one iteration of the loop of pathToCommands
PathToCommand ==
    /\ toStatus = "running"
    /\ Len(toSegments) < MaxSegments
    /\ \E seg \in PathSegments :
          /\ toSegments' = Append(toSegments, seg)
          /\ toCommands' =
                IF toLastPoint = <<>> \/ ~vectorsEqualWithin(seg[2], toLastPoint, toEps)
                THEN toCommands \o <<(<<"M", seg[2]>>), drawingCommand(seg)>>
                ELSE Append(toCommands, drawingCommand(seg))
          /\ toLastPoint' = segmentEnd(seg)
    /\ UNCHANGED <<toEps, toStatus>>
    /\ UNCHANGED <<boolVars, flagVars, cmdVars, fvVars, callVars, qtVars, pairVars, dataVars>>

\* the iterable is exhausted: the generator returns
EndOfSegments ==
    /\ toStatus = "running"
    /\ toStatus' = "done"
    /\ UNCHANGED <<toSegments, toEps, toLastPoint, toCommands>>
    /\ UNCHANGED <<boolVars, flagVars, cmdVars, fvVars, callVars, qtVars, pairVars, dataVars>>

NextTo ==
    \/ PathToCommand
    \/ EndOfSegments

(***************************************************************************)
(* findVertices over edges of every kind, one call of the flatMap callback *)
(* per step                                                                *)
(***************************************************************************)
MaxEdges == 2

\* edges from a point to itself and between two points, of every kind
StageTwoSegments ==
    {<<"L", <<2, 2>>, <<2, 2>>>>, <<"L", <<2, 2>>, <<4, 2>>>>,
     <<"C", <<2, 2>>, <<2, 2>>, <<2, 2>>, <<2, 2>>>>,
     <<"C", <<2, 2>>, <<2, 2>>, <<4, 4>>, <<2, 2>>>>,
     <<"C", <<2, 2>>, <<4, 0>>, <<2, 2>>, <<2, 2>>>>,
     <<"C", <<2, 2>>, <<4, 0>>, <<4, 4>>, <<2, 2>>>>,
     <<"C", <<2, 2>>, <<2, 2>>, <<4, 2>>, <<4, 2>>>>,
     <<"Q", <<2, 2>>, <<2, 2>>, <<2, 2>>>>, <<"Q", <<2, 2>>, <<4, 4>>, <<2, 2>>>>,
     <<"Q", <<2, 2>>, <<2, 2>>, <<4, 2>>>>}
    \cup {<<"A", <<2, 2>>, 1, 1, 0, fA, fS, <<2, 2>>>> : fA \in BOOLEAN, fS \in BOOLEAN}
    \cup {<<"A", <<2, 2>>, 1, 1, 0, FALSE, fS, <<4, 2>>>> : fS \in BOOLEAN}

StageTwoEdges == {[seg |-> seg, parent |-> parent] : seg \in StageTwoSegments, parent \in {1, 2}}

IdleFv ==
    /\ fvGraph = [vertices |-> <<>>, edges |-> <<>>]
    /\ fvEdge = <<>>
    /\ fvDiscarded = FALSE
    /\ fvStatus = "idle"

InitFv ==
    /\ fvGraph = [vertices |-> <<>>, edges |-> <<>>]
    /\ fvEdge = <<>>
    /\ fvDiscarded = FALSE
    /\ fvStatus = "running"

\* the flatMap callback of lines 1115-1183 for the next edge
FindVerticesEdge ==
    /\ fvStatus = "running"
    /\ Len(fvGraph.edges) < 2 * MaxEdges
    /\ \E edge \in StageTwoEdges :
          /\ fvEdge' = <<edge>>
          /\ fvDiscarded' = discardsEdge(fvGraph, edge)
          /\ fvGraph' = findVerticesStep(fvGraph, edge)
    /\ UNCHANGED fvStatus
    /\ UNCHANGED <<boolVars, flagVars, cmdVars, toVars, callVars, qtVars, pairVars, dataVars>>

\* no edge is left: findVertices returns the graph
ReturnMajorGraph ==
    /\ fvStatus = "running"
    /\ fvStatus' = "done"
    /\ UNCHANGED <<fvGraph, fvEdge, fvDiscarded>>
    /\ UNCHANGED <<boolVars, flagVars, cmdVars, toVars, callVars, qtVars, pairVars, dataVars>>

NextFv ==
    \/ FindVerticesEdge
    \/ ReturnMajorGraph

(***************************************************************************)
(* Single calls: a function of the library is called with arguments from a *)
(* small set and returns                                                   *)
(***************************************************************************)
IdleCall ==
    /\ fn = "none"
    /\ args = <<>>
    /\ ret = <<>>
    /\ callStatus = "idle"

\* segments that meet segment (0,0)-(4,0) or (4,0)-(4,4) at a joint, at an
\* endpoint inside the other, or in the interior of both
ProbeSegments ==
    {<<"L", <<0, 0>>, <<4, 0>>>>, <<"L", <<4, 0>>, <<4, 4>>>>, <<"L", <<4, 4>>, <<0, 0>>>>,
     <<"L", <<0, 0>>, <<0, 4>>>>, <<"L", <<4, 2>>, <<6, 2>>>>, <<"L", <<2, 2>>, <<6, 2>>>>,
     <<"L", <<2, 0>>, <<2, 2>>>>}

\* the pairs edgeTree.find can give: edges whose bounding boxes overlap
ProbePairs ==
    {pair \in {<<segmentToEdge(p, s), segmentToEdge(q, t)>> :
                  p \in {1, 2}, q \in {1, 2}, s \in ProbeSegments, t \in ProbeSegments} :
        /\ pair[1] # pair[2]
        /\ boundingBoxesOverlap(pathSegmentBoundingBox(pair[1].seg),
                                pathSegmentBoundingBox(pair[2].seg))}

InitProbe ==
    /\ fn = "probe"
    /\ args \in ProbePairs
    /\ ret = <<>>
    /\ callStatus = "called"

\* lines 1005-1027 of splitAtIntersections for edge args[1] and candidate
\* args[2]: the flag and the intersection found with it
Probe ==
    /\ fn = "probe"
    /\ callStatus = "called"
    /\ ret' = <<[includeEndpoints |-> includeEndpoints(args[1], args[2]),
                intersection |-> pathSegmentIntersection(args[1].seg, args[2].seg,
                                     includeEndpoints(args[1], args[2]))]>>
    /\ callStatus' = "returned"
    /\ UNCHANGED <<fn, args>>
    /\ UNCHANGED <<boolVars, flagVars, cmdVars, toVars, fvVars, qtVars, pairVars, dataVars>>

\* parameters recorded for an edge: 0, 1, fractions in between that print
\* in plain decimal notation, 5e-7 and 7.5e-7, which print in exponent
\* notation, and 1 - 5e-9, which is within EPS.param of 1
SplitParameters ==
    {<<0, 1>>, <<1, 4>>, <<1, 2>>, <<3, 4>>, <<1, 1>>,
     <<1, 2000000>>, <<3, 4000000>>, <<199999999, 200000000>>}
MaxSplits == 3
SplitLists ==
    UNION {[1..n -> SplitParameters] : n \in 1..MaxSplits}

InitSplit ==
    /\ fn = "split"
    /\ args \in {<<segmentToEdge(p, <<"L", <<0, 0>>, <<4, 0>>>>), splits>> :
                    p \in {1, 2}, splits \in SplitLists}
    /\ ret = <<>>
    /\ callStatus = "called"

\* lines 1049-1077 of splitAtIntersections for edge args[1] with
\* splitsPerEdge[i] = args[2]: the fragments pushed to newEdges
Split ==
    /\ fn = "split"
    /\ callStatus = "called"
    /\ ret' = splitLoop(args[1].parent, sortSplits(args[2]), 1, args[1].seg,
                        RatZero, RatZero)
    /\ callStatus' = "returned"
    /\ UNCHANGED <<fn, args>>
    /\ UNCHANGED <<boolVars, flagVars, cmdVars, toVars, fvVars, qtVars, pairVars, dataVars>>

\* the dual graph pathBoolean builds for the paths pa and pb
dualOf(pa, pb) ==
    Let(computeMinor(findVertices(splitAtIntersections(unsplitEdgesOf(pa, pb)).edges)),
        LAMBDA minor : computeDual(sortOutgoingEdgesByAngle(removeDanglingEdges(minor))))

\* three squares one inside the other; two squares side by side in a
\* rectangle; a square in the face two overlapping squares share; three
\* nested squares and one apart
NestPaths ==
    {<<closedPath(rect(0, 0, 8, 8)) \o closedPath(rect(2, 2, 6, 6)),
       closedPath(rect(3, 3, 5, 5))>>,
     <<closedPath(rect(1, 1, 3, 3)) \o closedPath(rect(5, 1, 7, 3)),
       closedPath(rect(0, 0, 8, 4))>>,
     <<closedPath(rect(0, 0, 8, 8)) \o closedPath(rect(5, 5, 7, 7)),
       closedPath(rect(4, 4, 12, 12))>>,
     <<closedPath(rect(0, 0, 8, 8)) \o closedPath(rect(2, 2, 6, 6)),
       closedPath(rect(3, 3, 5, 5)) \o closedPath(rect(10, 0, 12, 2))>>}

\* the components in every order
NestDuals ==
    UNION {{[D EXCEPT !.components = [i \in 1..Len(D.components) |-> D.components[order[i]]]] :
               order \in Permutations(1..Len(D.components))} :
           D \in {dualOf(paths[1], paths[2]) : paths \in NestPaths}}

\* ret is nestingTrees with, as history, the number of components inserted
\* and the trees before the last insert
InitNest ==
    /\ fn = "computeNestingTree"
    /\ args \in {<<D>> : D \in NestDuals}
    /\ ret = [trees |-> <<>>, inserted |-> 0, before |-> <<>>]
    /\ callStatus = "called"

\* lines 1705-1709: nestingTrees = insert(nestingTrees, component) for the
\* next component, and the return after the last
InsertComponent ==
    /\ fn = "computeNestingTree"
    /\ callStatus = "called"
    /\ ret' = [trees |-> insert(args[1], ret.trees, ret.inserted + 1),
               inserted |-> ret.inserted + 1,
               before |-> ret.trees]
    /\ callStatus' = IF ret.inserted + 1 = Len(args[1].components)
                     THEN "returned" ELSE "called"
    /\ UNCHANGED <<fn, args>>
    /\ UNCHANGED <<boolVars, flagVars, cmdVars, toVars, fvVars, qtVars, pairVars, dataVars>>

\* a polyline from a over b to c and the point the ray starts from
RayCoordinates == 0..2
RayPoints == RayCoordinates \X RayCoordinates
InitRay ==
    /\ fn = "ray"
    /\ args \in {<<pa, pb, <<pb[1], y>>, point>> :
                    pa \in RayPoints, pb \in RayPoints, y \in RayCoordinates,
                    point \in RayPoints}
    /\ ret = <<>>
    /\ callStatus = "called"

\* intervalCrossesPoint for the two intervals of the polyline,
\* lineSegmentIntersectsHorizontalRay for its first segment and
\* boundingBoxIntersectsHorizontalRay for the box of that segment
RayTests ==
    /\ fn = "ray"
    /\ callStatus = "called"
    /\ ret' = [intervals |-> <<intervalCrossesPoint(args[1][2], args[2][2], args[4][2]),
                               intervalCrossesPoint(args[2][2], args[3][2], args[4][2])>>,
               segment |-> lineSegmentIntersectsHorizontalRay(args[1], args[2], args[4]),
               boundingBox |-> boundingBoxIntersectsHorizontalRay(
                                   pathSegmentBoundingBox(<<"L", args[1], args[2]>>), args[4])]
    /\ callStatus' = "returned"
    /\ UNCHANGED <<fn, args>>
    /\ UNCHANGED <<boolVars, flagVars, cmdVars, toVars, fvVars, qtVars, pairVars, dataVars>>

\* util/math.ts and the bounding intervals of PathSegment.ts; the numbers are
\* fractions
lerp(x, y, t) == RatAdd(x, RatMul(RatSub(y, x), t))
evalCubic1d(p0, p1, p2, p3, t) ==
    LET p01 == lerp(p0, p1, t)
        p12 == lerp(p1, p2, t)
        p23 == lerp(p2, p3, t)
        p012 == lerp(p01, p12, t)
        p123 == lerp(p12, p23, t)
    IN  lerp(p012, p123, t)
evalQuadratic1d(p0, p1, p2, t) ==
    LET p01 == lerp(p0, p1, t)
        p12 == lerp(p1, p2, t)
    IN  lerp(p01, p12, t)
RatMin(x, y) == IF RatLess(y, x) THEN y ELSE x
RatMax(x, y) == IF RatLess(x, y) THEN y ELSE x
\* Math.sqrt where the root is a whole number
IsSquare(n) == \E r \in 0..n : r * r = n
sqrtExact(n) == CHOOSE r \in 0..n : r * r = n
\* min = Math.min(min, x); max = Math.max(max, x)
extend(interval, x) == <<RatMin(interval[1], x), RatMax(interval[2], x)>>

\* the control values are whole numbers
cubicBoundingInterval(p0, p1, p2, p3) ==
    LET ends == <<(<<Min(p0, p3), 1>>), (<<Max(p0, p3), 1>>)>>
        ca == 3 * (-p0 + 3 * p1 - 3 * p2 + p3)
        cb == 6 * (p0 - 2 * p1 + p2)
        cc == 3 * (p1 - p0)
        D == cb * cb - 4 * ca * cc
    IN  IF D < 0 \/ ca = 0 THEN ends
        ELSE LET sqrtD == sqrtExact(D)
                 t0 == Rat(-cb - sqrtD, 2 * ca)
                 t1 == Rat(-cb + sqrtD, 2 * ca)
                 at(t) == evalCubic1d(<<p0, 1>>, <<p1, 1>>, <<p2, 1>>, <<p3, 1>>, t)
                 first == IF RatLess(RatZero, t0) /\ RatLess(t0, RatOne)
                          THEN extend(ends, at(t0)) ELSE ends
             IN  IF RatLess(RatZero, t1) /\ RatLess(t1, RatOne)
                 THEN extend(first, at(t1)) ELSE first

quadraticBoundingInterval(p0, p1, p2) ==
    LET ends == <<(<<Min(p0, p2), 1>>), (<<Max(p0, p2), 1>>)>>
        denominator == p0 - 2 * p1 + p2
    IN  IF denominator = 0 THEN ends
        ELSE LET t == Rat(p0 - p1, denominator)
             IN  IF ~RatLess(t, RatZero) /\ ~RatLess(RatOne, t)
                 THEN extend(ends, evalQuadratic1d(<<p0, 1>>, <<p1, 1>>, <<p2, 1>>, t))
                 ELSE ends

\* one coordinate of the control points of a Bezier segment; the cubics are
\* those whose discriminant has a whole root or none
ControlValues == 0..2
CubicControls ==
    {p \in ControlValues \X ControlValues \X ControlValues \X ControlValues :
        LET ca == 3 * (-p[1] + 3 * p[2] - 3 * p[3] + p[4])
            cb == 6 * (p[1] - 2 * p[2] + p[3])
            cc == 3 * (p[2] - p[1])
            D == cb * cb - 4 * ca * cc
        IN  D < 0 \/ IsSquare(D)}
QuadraticControls == ControlValues \X ControlValues \X ControlValues
InitBounding ==
    /\ \/ fn = "cubicBoundingInterval" /\ args \in CubicControls
       \/ fn = "quadraticBoundingInterval" /\ args \in QuadraticControls
    /\ ret = <<>>
    /\ callStatus = "called"

\* pathSegmentBoundingBox, case "C": one of its two calls
CubicBoundingInterval ==
    /\ fn = "cubicBoundingInterval"
    /\ callStatus = "called"
    /\ ret' = cubicBoundingInterval(args[1], args[2], args[3], args[4])
    /\ callStatus' = "returned"
    /\ UNCHANGED <<fn, args>>
    /\ UNCHANGED <<boolVars, flagVars, cmdVars, toVars, fvVars, qtVars, pairVars, dataVars>>

\* pathSegmentBoundingBox, case "Q": one of its two calls
QuadraticBoundingInterval ==
    /\ fn = "quadraticBoundingInterval"
    /\ callStatus = "called"
    /\ ret' = quadraticBoundingInterval(args[1], args[2], args[3])
    /\ callStatus' = "returned"
    /\ UNCHANGED <<fn, args>>
    /\ UNCHANGED <<boolVars, flagVars, cmdVars, toVars, fvVars, qtVars, pairVars, dataVars>>

(***************************************************************************)
(* Arcs: arcSegmentToCenter, arcSegmentFromCenter, samplePathSegmentAt and *)
(* splitArcSegmentAt                                                       *)
(*                                                                         *)
(* An arc is <<"A", xy1, rx, ry, phi, fA, fS, xy2>>.  An angle is          *)
(* [quarters |-> q, radians |-> r] and stands for q * PI/2 + r radians,    *)
(* with whole q and r; sine and cosine of q * PI/2 are whole numbers.  A   *)
(* located point is [fixed |-> c, turned |-> v, by |-> r] and stands for   *)
(* c + R(r radians) v.  For whole r # 0 the cosine of r is not a fraction, *)
(* so two located points with vectors of fractions are the same point      *)
(* only if they are the same record.                                       *)
(***************************************************************************)
deg2rad(deg) == [quarters |-> deg \div 90, radians |-> 0]
\* a number handed over as an angle in radians
radians(x) == [quarters |-> 0, radians |-> x]
cosQuarters(q) == <<1, 0, -1, 0>>[(q % 4) + 1]
sinQuarters(q) == <<0, 1, 0, -1>>[(q % 4) + 1]
TAU == 4
\* mat2.fromRotation followed by vec2.transformMat2, for a multiple of PI/2
rotateQuarters(v, q) ==
    <<cosQuarters(q) * v[1] - sinQuarters(q) * v[2],
      sinQuarters(q) * v[1] + cosQuarters(q) * v[2]>>
\* the point c + R(angle) v
located(c, v, angle) ==
    IF angle.radians = 0 \/ v = <<0, 0>>
    THEN [fixed |-> <<c[1] + rotateQuarters(v, angle.quarters)[1],
                      c[2] + rotateQuarters(v, angle.quarters)[2]>>,
          turned |-> <<0, 0>>, by |-> 0]
    ELSE [fixed |-> c, turned |-> rotateQuarters(v, angle.quarters), by |-> angle.radians]
Sign(x) == IF x > 0 THEN 1 ELSE IF x < 0 THEN -1 ELSE 0
\* Math.acos of 1, 0 and -1, in quarter turns
acosQuarters(x) == IF x = 1 THEN 0 ELSE IF x = 0 THEN 1 ELSE 2
\* vectorAngle for vectors along the axes, in quarter turns
vectorAngle(u, v) ==
    LET sign == Sign(u[1] * v[2] - u[2] * v[1])
    IN  IF sign = 0 /\ u[1] + v[1] = 0 /\ u[2] + v[2] = 0 THEN 2
        ELSE sign * acosQuarters(((u[1] * v[1] + u[2] * v[2])
                                     \div sqrtExact(u[1] * u[1] + u[2] * u[2]))
                                     \div sqrtExact(v[1] * v[1] + v[2] * v[2]))

\* xy1Prime of arcSegmentToCenter
xy1PrimeOf(seg) ==
    rotateQuarters(<<(seg[2][1] - seg[8][1]) \div 2, (seg[2][2] - seg[8][2]) \div 2>>,
                   -deg2rad(seg[5]).quarters)
\* lambda > 1: the radii are out of range and are scaled.  lambda is a
\* multiple of 1 / (rx2 * ry2) plus 1e-12, so it is above 1 when the multiple
\* is at least 1.
outOfRangeRadii(seg) ==
    LET xy1Prime == xy1PrimeOf(seg)
        rx2 == seg[3] * seg[3]
        ry2 == seg[4] * seg[4]
    IN  xy1Prime[1] * xy1Prime[1] * ry2 + xy1Prime[2] * xy1Prime[2] * rx2 >= rx2 * ry2

\* <<>> is null.  The result for radii in range (lambda <= 1); the quotients
\* are whole for the arcs drawn below.
arcSegmentToCenter(seg) ==
    IF seg[3] = 0 \/ seg[4] = 0 THEN <<>>
    ELSE
        LET xy1Prime == xy1PrimeOf(seg)
            rx2 == seg[3] * seg[3]
            ry2 == seg[4] * seg[4]
            x1Prime2 == xy1Prime[1] * xy1Prime[1]
            y1Prime2 == xy1Prime[2] * xy1Prime[2]
            rx == Abs(seg[3])
            ry == Abs(seg[4])
            sign == IF seg[6] = seg[7] THEN -1 ELSE 1
            multiplier == sqrtExact((rx2 * ry2 - rx2 * y1Prime2 - ry2 * x1Prime2)
                                        \div (rx2 * y1Prime2 + ry2 * x1Prime2))
            cxPrime == sign * multiplier * ((rx * xy1Prime[2]) \div ry)
            cyPrime == sign * multiplier * ((-ry * xy1Prime[1]) \div rx)
            \* the transposed matrix turns by +deg2rad(phi)
            turnedBack == rotateQuarters(<<cxPrime, cyPrime>>, deg2rad(seg[5]).quarters)
            cxy == <<turnedBack[1] + (seg[2][1] + seg[8][1]) \div 2,
                     turnedBack[2] + (seg[2][2] + seg[8][2]) \div 2>>
            vec1 == <<(xy1Prime[1] - cxPrime) \div rx, (xy1Prime[2] - cyPrime) \div ry>>
            theta1 == vectorAngle(<<1, 0>>, vec1)
            angle == vectorAngle(vec1, <<(-xy1Prime[1] - cxPrime) \div rx,
                                         (-xy1Prime[2] - cyPrime) \div ry>>)
            deltaTheta == IF ~seg[7] /\ angle > 0 THEN angle - TAU
                          ELSE IF seg[7] /\ angle < 0 THEN angle + TAU
                          ELSE angle
        IN  <<[center |-> cxy, theta1 |-> theta1, deltaTheta |-> deltaTheta,
               rx |-> rx, ry |-> ry, phi |-> seg[5]]>>

\* theta1 and deltaTheta in quarter turns
arcSegmentFromCenter(c) ==
    <<"A",
      located(c.center, <<c.rx * cosQuarters(c.theta1), c.ry * sinQuarters(c.theta1)>>,
              radians(c.phi)),
      c.rx, c.ry, c.phi,
      Abs(c.deltaTheta) > 2,
      c.deltaTheta > 0,
      located(c.center, <<c.rx * cosQuarters(c.theta1 + c.deltaTheta),
                          c.ry * sinQuarters(c.theta1 + c.deltaTheta)>>,
              radians(c.phi))>>

\* case "A" of samplePathSegmentAt; t is a fraction for which t * deltaTheta
\* is a whole number of quarter turns
samplePathSegmentAt(seg, t) ==
    LET centerParametrization == arcSegmentToCenter(seg)
    IN  IF centerParametrization = <<>>
        THEN located(lerpPoint(seg[2], seg[8], t), <<0, 0>>, radians(0))
        ELSE LET c == centerParametrization[1]
                 theta == c.theta1 + (t[1] * c.deltaTheta) \div t[2]
             IN  located(c.center, <<c.rx * cosQuarters(theta), c.ry * sinQuarters(theta)>>,
                         radians(c.phi))

splitArcSegmentAt(seg, t) ==
    LET centerParametrization == arcSegmentToCenter(seg)
    IN  IF centerParametrization = <<>>
        THEN splitSegmentAt(<<"L", seg[2], seg[8]>>, t)
        ELSE LET c == centerParametrization[1]
                 midDeltaTheta == (c.deltaTheta * t[1]) \div t[2]
             IN  <<arcSegmentFromCenter([c EXCEPT !.deltaTheta = midDeltaTheta]),
                   arcSegmentFromCenter([c EXCEPT !.theta1 = c.theta1 + midDeltaTheta,
                                                  !.deltaTheta = c.deltaTheta - midDeltaTheta])>>

\* the arc of the ellipse with the given centre, radii and rotation (in
\* degrees) that starts at the angle theta1 and sweeps deltaTheta, both in
\* quarter turns
arcOf(center, rx, ry, phi, theta1, deltaTheta) ==
    <<"A",
      located(center, <<rx * cosQuarters(theta1), ry * sinQuarters(theta1)>>,
              deg2rad(phi)).fixed,
      rx, ry, phi, Abs(deltaTheta) > 2, deltaTheta > 0,
      located(center, <<rx * cosQuarters(theta1 + deltaTheta),
                        ry * sinQuarters(theta1 + deltaTheta)>>, deg2rad(phi)).fixed>>
ArcRadii == {2, 4}
ArcRotations == {0, 90, 180}
ArcSweeps == {1, -1, 3, -3}
ArcSegments ==
    {arcOf(<<2, 4>>, rx, ry, phi, theta1, deltaTheta) :
        rx \in ArcRadii, ry \in ArcRadii, phi \in ArcRotations,
        theta1 \in 0..3, deltaTheta \in ArcSweeps}
    \cup {<<"A", <<0, 0>>, 0, 2, phi, FALSE, TRUE, <<6, 6>>>> : phi \in ArcRotations}
\* the parameters that cut the sweep at whole quarter turns
ArcParameters(seg) ==
    IF seg[3] # 0 /\ seg[6] THEN {<<0, 1>>, <<1, 3>>, <<2, 3>>, <<1, 1>>}
    ELSE {<<0, 1>>, <<1, 1>>}
InitArc ==
    /\ fn \in {"samplePathSegmentAt", "splitArcSegmentAt"}
    /\ \E seg \in {x \in ArcSegments : x[3] = 0 \/ ~outOfRangeRadii(x)} :
           \E t \in ArcParameters(seg) : args = <<seg, t>>
    /\ ret = <<>>
    /\ callStatus = "called"

SamplePathSegmentAt ==
    /\ fn = "samplePathSegmentAt"
    /\ callStatus = "called"
    /\ ret' = samplePathSegmentAt(args[1], args[2])
    /\ callStatus' = "returned"
    /\ UNCHANGED <<fn, args>>
    /\ UNCHANGED <<boolVars, flagVars, cmdVars, toVars, fvVars, qtVars, pairVars, dataVars>>

SplitArcSegmentAt ==
    /\ fn = "splitArcSegmentAt"
    /\ callStatus = "called"
    /\ ret' = splitArcSegmentAt(args[1], args[2])
    /\ callStatus' = "returned"
    /\ UNCHANGED <<fn, args>>
    /\ UNCHANGED <<boolVars, flagVars, cmdVars, toVars, fvVars, qtVars, pairVars, dataVars>>

InitCall ==
    \/ InitProbe
    \/ InitSplit
    \/ InitNest
    \/ InitRay
    \/ InitBounding
    \/ InitArc

NextCall ==
    \/ Probe
    \/ Split
    \/ InsertComponent
    \/ RayTests
    \/ CubicBoundingInterval
    \/ QuadraticBoundingInterval
    \/ SamplePathSegmentAt
    \/ SplitArcSegmentAt

(***************************************************************************)
(* QuadTree                                                                *)
(*                                                                         *)
(* A tree is [boundingBox, depth, innerNodeCapacity, pairs, subtrees];     *)
(* pairs is a sequence of <<box, value>>, subtrees is <<>> (null) or the   *)
(* four subtrees.  The boxes of the trees built here have even sums of     *)
(* opposite sides wherever a node is subdivided, so the mid lines are      *)
(* whole numbers.                                                          *)
(***************************************************************************)
newQuadTree(boundingBox, depth, innerNodeCapacity) ==
    [boundingBox |-> boundingBox, depth |-> depth,
     innerNodeCapacity |-> innerNodeCapacity, pairs |-> <<>>, subtrees |-> <<>>]

ensureSubtrees(tree) ==
    IF tree.subtrees # <<>> THEN tree
    ELSE Let(<<(tree.boundingBox.left + tree.boundingBox.right) \div 2,
               (tree.boundingBox.top + tree.boundingBox.bottom) \div 2>>,
             LAMBDA mid :
                 [tree EXCEPT !.subtrees =
                     <<newQuadTree([top |-> tree.boundingBox.top, right |-> mid[1],
                                    bottom |-> mid[2], left |-> tree.boundingBox.left],
                                   tree.depth - 1, tree.innerNodeCapacity),
                       newQuadTree([top |-> tree.boundingBox.top,
                                    right |-> tree.boundingBox.right,
                                    bottom |-> mid[2], left |-> mid[1]],
                                   tree.depth - 1, tree.innerNodeCapacity),
                       newQuadTree([top |-> mid[2], right |-> mid[1],
                                    bottom |-> tree.boundingBox.bottom,
                                    left |-> tree.boundingBox.left],
                                   tree.depth - 1, tree.innerNodeCapacity),
                       newQuadTree([top |-> mid[2], right |-> tree.boundingBox.right,
                                    bottom |-> tree.boundingBox.bottom, left |-> mid[1]],
                                   tree.depth - 1, tree.innerNodeCapacity)>>])

\* tree.insert(boundingBox, value): [tree, returned]
RECURSIVE quadTreeInsert(_, _, _)
quadTreeInsert(tree, boundingBox, value) ==
    IF ~boundingBoxesOverlap(boundingBox, tree.boundingBox)
    THEN [tree |-> tree, returned |-> FALSE]
    ELSE IF tree.depth > 0 /\ Len(tree.pairs) >= tree.innerNodeCapacity
    THEN Let(ensureSubtrees(tree),
             LAMBDA t :
                 [tree |-> [t EXCEPT !.subtrees =
                               [i \in 1..4 |->
                                   quadTreeInsert(t.subtrees[i], boundingBox, value).tree]],
                  returned |-> TRUE])
    ELSE [tree |-> [tree EXCEPT !.pairs = Append(@, <<boundingBox, value>>)],
          returned |-> TRUE]

\* a set that takes a value again
setAddAgain(set, value) == Append(set, value)

\* set.add(value) on a Set kept in insertion order
setAdd(set, value) ==
    IF value \in Range(set) THEN set ELSE Append(set, value)

\* tree.find(boundingBox, set): the set, in insertion order
RECURSIVE quadTreeFind(_, _, _)
RECURSIVE findInPairs(_, _, _, _)
RECURSIVE findInSubtrees(_, _, _, _)
findInPairs(pairs, i, boundingBox, set) ==
    IF i > Len(pairs) THEN set
    ELSE findInPairs(pairs, i + 1, boundingBox,
                     IF boundingBoxesOverlap(boundingBox, pairs[i][1])
                     THEN setAdd(set, pairs[i][2]) ELSE set)
findInSubtrees(subtrees, i, boundingBox, set) ==
    IF i > Len(subtrees) THEN set
    ELSE findInSubtrees(subtrees, i + 1, boundingBox,
                        quadTreeFind(subtrees[i], boundingBox, set))
quadTreeFind(tree, boundingBox, set) ==
    IF ~boundingBoxesOverlap(boundingBox, tree.boundingBox) THEN set
    ELSE findInSubtrees(tree.subtrees, 1, boundingBox,
                        findInPairs(tree.pairs, 1, boundingBox, set))

IdleQt ==
    /\ qtTree = <<>>
    /\ qtInserts = <<>>
    /\ qtFound = <<>>

boxOf(left, top, right, bottom) ==
    [top |-> top, right |-> right, bottom |-> bottom, left |-> left]

\* the tree covers [4, 12] x [4, 12]; the boxes: in one quadrant, across the
\* centre, in another quadrant, reaching out of the tree, and outside of it
QtRoot == boxOf(4, 4, 12, 12)
QtBoxes ==
    {boxOf(5, 5, 6, 6), boxOf(7, 7, 9, 9), boxOf(9, 5, 11, 6),
     boxOf(10, 10, 14, 14), boxOf(13, 13, 15, 15)}
QtDepths == {0, 1, 2}
QtCapacities == {1, 2}
MaxInserts == 3

InitQt ==
    /\ qtTree \in {newQuadTree(QtRoot, d, c) : d \in QtDepths, c \in QtCapacities}
    /\ qtInserts = <<>>
    /\ qtFound = <<>>

\* tree.insert(boundingBox, value); the values are numbered in call order
QuadTreeInsert ==
    /\ qtTree # <<>>
    /\ Len(qtInserts) < MaxInserts
    /\ \E boundingBox \in QtBoxes :
           \E r \in {quadTreeInsert(qtTree, boundingBox, Len(qtInserts) + 1)} :
               /\ qtTree' = r.tree
               /\ qtInserts' = Append(qtInserts,
                                      [boundingBox |-> boundingBox,
                                       value |-> Len(qtInserts) + 1,
                                       accepted |-> r.returned])
    /\ qtFound' = <<>>
    /\ UNCHANGED <<boolVars, flagVars, cmdVars, toVars, fvVars, callVars, pairVars, dataVars>>

\* tree.find(boundingBox)
QuadTreeFind ==
    /\ qtTree # <<>>
    /\ \E boundingBox \in QtBoxes :
           qtFound' = <<[boundingBox |-> boundingBox,
                         set |-> quadTreeFind(qtTree, boundingBox, <<>>)]>>
    /\ UNCHANGED <<qtTree, qtInserts>>
    /\ UNCHANGED <<boolVars, flagVars, cmdVars, toVars, fvVars, callVars, pairVars, dataVars>>

NextQt ==
    \/ QuadTreeInsert
    \/ QuadTreeFind

(***************************************************************************)
(* splitAtIntersections with its QuadTree: one step for every edge of the  *)
(* first loop, one for the second loop                                     *)
(***************************************************************************)
IdlePair ==
    /\ withBoundingBox = <<>>
    /\ edgeTree = <<>>
    /\ probeIndex = 0
    /\ splitsPerEdge = <<>>
    /\ tested = <<>>
    /\ newEdges = <<>>

INTERSECTION_TREE_DEPTH == 8
DefaultInnerNodeCapacity == 16

\* a staircase from (0,0) to (16,16) closed along the bottom and the left
\* side: 18 edges, more than one node of the tree holds
staircase ==
    [i \in 1..16 |->
        IF i % 2 = 1 THEN <<"L", <<i - 1, i - 1>>, <<i + 1, i - 1>>>>
        ELSE <<"L", <<i, i - 2>>, <<i, i>>>>]
        \o <<(<<"L", <<16, 16>>, <<0, 16>>>>), (<<"L", <<0, 16>>, <<0, 0>>>>)>>

PairInputs ==
    {unsplitEdgesOf(staircase, closedPath(rect(4, 2, 12, 14))),
     unsplitEdgesOf(closedPath(rect(4, 2, 12, 14)), staircase),
     unsplitEdgesOf(staircase, <<(<<"L", <<0, 8>>, <<16, 8>>>>), (<<"L", <<8, 0>>, <<8, 16>>>>)>>),
     unsplitEdgesOf(closedPath(rect(0, 0, 4, 4)), closedPath(rect(2, 2, 6, 6))),
     unsplitEdgesOf(closedPath(rect(0, 0, 4, 4)), closedPath(rect(4, 0, 6, 4))),
     unsplitEdgesOf(closedPath(rect(0, 0, 4, 4)), closedPath(reversedLoop(rect(0, 0, 4, 4))))}

InitPair ==
    /\ withBoundingBox \in PairInputs
    /\ edgeTree = newQuadTree(totalBoundingBoxOf(withBoundingBox)[1],
                              INTERSECTION_TREE_DEPTH, DefaultInnerNodeCapacity)
    /\ probeIndex = 1
    /\ splitsPerEdge = [k \in 1..Len(withBoundingBox) |-> <<>>]
    /\ tested = <<>>
    /\ newEdges = <<>>

\* addSplit(i, t0); addSplit(j, t1) for every [t0, t1] of the intersection
addSplits(splits, i, j, intersection) ==
    IF intersection = <<>> THEN splits
    ELSE [k \in 1..Len(splits) |->
             IF k = i /\ k = j THEN splits[k] \o <<intersection[1][1], intersection[1][2]>>
             ELSE IF k = i THEN Append(splits[k], intersection[1][1])
             ELSE IF k = j THEN Append(splits[k], intersection[1][2])
             ELSE splits[k]]

\* the loop over the candidates of edge i, from candidate k on
RECURSIVE probeCandidates(_, _, _, _, _)
probeCandidates(edges, i, candidates, k, splits) ==
    IF k > Len(candidates) THEN splits
    ELSE probeCandidates(edges, i, candidates, k + 1,
             addSplits(splits, i, candidates[k],
                       pathSegmentIntersection(edges[i].seg, edges[candidates[k]].seg,
                           includeEndpoints(edges[i], edges[candidates[k]]))))

\* lines 1000-1039 for edge i = probeIndex
ProbeEdge ==
    /\ probeIndex >= 1
    /\ probeIndex <= Len(withBoundingBox)
    /\ \E candidates \in {quadTreeFind(edgeTree,
                              pathSegmentBoundingBox(withBoundingBox[probeIndex].seg), <<>>)} :
           /\ splitsPerEdge' = probeCandidates(withBoundingBox, probeIndex, candidates, 1,
                                               splitsPerEdge)
           /\ tested' = tested \o [k \in 1..Len(candidates) |-> <<probeIndex, candidates[k]>>]
    /\ edgeTree' = quadTreeInsert(edgeTree,
                       pathSegmentBoundingBox(withBoundingBox[probeIndex].seg),
                       probeIndex).tree
    /\ probeIndex' = probeIndex + 1
    /\ UNCHANGED <<withBoundingBox, newEdges>>
    /\ UNCHANGED <<boolVars, flagVars, cmdVars, toVars, fvVars, callVars, qtVars, dataVars>>

\* lines 1041-1079: the second loop and the return
SplitEdges ==
    /\ probeIndex > Len(withBoundingBox)
    /\ newEdges = <<>>
    /\ newEdges' = <<splitEdgesFrom(withBoundingBox, splitsPerEdge, 1)>>
    /\ UNCHANGED <<withBoundingBox, edgeTree, probeIndex, splitsPerEdge, tested>>
    /\ UNCHANGED <<boolVars, flagVars, cmdVars, toVars, fvVars, callVars, qtVars, dataVars>>

NextPair ==
    \/ ProbeEdge
    \/ SplitEdges

(***************************************************************************)
(* commandsFromPathData (path-data.ts)                                     *)
(*                                                                         *)
(* The string d is a sequence of one-character strings, indices count from *)
(* 0 as in the source.  A sticky regular expression is matched at i: the   *)
(* match functions return <<>> (null) or <<lastIndex, captured>>.          *)
(***************************************************************************)
CommandLetters ==
    {"M", "L", "C", "S", "Q", "T", "A", "Z", "H", "V",
     "m", "l", "h", "v", "c", "s", "q", "t", "a", "z"}
DigitCharacters == {"0", "1", "2", "3", "4", "5", "6", "7", "8", "9"}
SpaceCharacters == {" "}

charAt(str, k) == IF k >= 0 /\ k < Len(str) THEN str[k + 1] ELSE ""

\* the index after the longest run of characters of a class from k on
RECURSIVE skipWhile(_, _, _)
skipWhile(str, k, class) ==
    IF charAt(str, k) \in class THEN skipWhile(str, k + 1, class) ELSE k

\* \s*,?\s*
skipSeparator(str, k) ==
    Let(skipWhile(str, k, SpaceCharacters),
        LAMBDA j : skipWhile(str, IF charAt(str, j) = "," THEN j + 1 ELSE j,
                             SpaceCharacters))

\* reCmd = /\s*([MLCSQTAZHVmlhvcsqtaz])/y
matchCmd(str, k) ==
    Let(skipWhile(str, k, SpaceCharacters),
        LAMBDA j : IF charAt(str, j) \in CommandLetters
                   THEN <<j + 1, charAt(str, j)>> ELSE <<>>)

\* the end of -?\d*(?:\d\.|\.\d|\d)\d* matched at k, -1 if it does not match:
\* digits with an optional point after them and digits after the point, or
\* a point followed by digits
mantissaEnd(str, k) ==
    Let(IF charAt(str, k) = "-" THEN k + 1 ELSE k,
        LAMBDA s :
            Let(skipWhile(str, s, DigitCharacters),
                LAMBDA e1 :
                    IF e1 > s
                    THEN (IF charAt(str, e1) = "."
                          THEN skipWhile(str, e1 + 1, DigitCharacters) ELSE e1)
                    ELSE IF charAt(str, s) = "." /\ charAt(str, s + 1) \in DigitCharacters
                    THEN skipWhile(str, s + 1, DigitCharacters)
                    ELSE -1))

\* the end of (?:[eE][+\-]?\d+)? matched at k
exponentEnd(str, k) ==
    IF charAt(str, k) \notin {"e", "E"} THEN k
    ELSE Let(IF charAt(str, k + 1) \in {"+", "-"} THEN k + 2 ELSE k + 1,
             LAMBDA y : IF skipWhile(str, y, DigitCharacters) > y
                        THEN skipWhile(str, y, DigitCharacters) ELSE k)

\* the number the digits str[from .. to - 1] spell
RECURSIVE digitsValue(_, _, _)
digitsValue(str, from, to) ==
    IF to <= from THEN 0
    ELSE 10 * digitsValue(str, from, to - 1)
         + (CHOOSE v \in 0..9 : ToString(v) = charAt(str, to - 1))

RECURSIVE PowerOfTen(_)
PowerOfTen(k) == IF k = 0 THEN 1 ELSE 10 * PowerOfTen(k - 1)

\* Number(text) for the text str[from .. to - 1] of a match of reFloat, as a
\* fraction
toNumber(str, from, to) ==
    LET s == IF charAt(str, from) = "-" THEN from + 1 ELSE from
        e1 == skipWhile(str, s, DigitCharacters)
        e2 == IF charAt(str, e1) = "." THEN skipWhile(str, e1 + 1, DigitCharacters) ELSE e1
        fraction == IF e2 > e1 THEN e2 - e1 - 1 ELSE 0
        mantissa == digitsValue(str, s, e1) * PowerOfTen(fraction)
                        + digitsValue(str, e1 + 1, e2)
        x == IF e2 < to
             THEN (IF charAt(str, e2 + 1) = "-" THEN -digitsValue(str, e2 + 2, to)
                   ELSE IF charAt(str, e2 + 1) = "+" THEN digitsValue(str, e2 + 2, to)
                   ELSE digitsValue(str, e2 + 1, to))
             ELSE 0
        sign == IF s > from THEN -1 ELSE 1
    IN  IF x >= fraction THEN Rat(sign * mantissa * PowerOfTen(x - fraction), 1)
        ELSE Rat(sign * mantissa, PowerOfTen(fraction - x))

\* reFloat = /\s*,?\s*(-?\d*(?:\d\.|\.\d|\d)\d*(?:[eE][+\-]?\d+)?)/y
matchFloat(str, k) ==
    Let(skipSeparator(str, k),
        LAMBDA j :
            IF mantissaEnd(str, j) = -1 THEN <<>>
            ELSE Let(exponentEnd(str, mantissaEnd(str, j)),
                     LAMBDA e : <<e, toNumber(str, j, e)>>))

\* reBool = /\s*,?\s*([01])/y; the captured flag as match[1] === "1"
matchBool(str, k) ==
    Let(skipSeparator(str, k),
        LAMBDA j : IF charAt(str, j) \in {"0", "1"}
                   THEN <<j + 1, charAt(str, j) = "1">> ELSE <<>>)

\* getCmd(): [cmd, i]; cmd is "eof" for the symbol eof
getCmd(str, k, last) ==
    IF k >= Len(str) - 1 THEN [cmd |-> "eof", i |-> k]
    ELSE IF matchCmd(str, k) = <<>>
    THEN [cmd |-> (CASE last = "M" -> "L" [] last = "m" -> "l" [] OTHER -> last), i |-> k]
    ELSE [cmd |-> matchCmd(str, k)[2], i |-> matchCmd(str, k)[1]]

\* the calls of getFloat ("f") and getBool ("b") in the yield of a command
parameterKinds(cmd) ==
    CASE cmd \in {"M", "L", "T", "m", "l", "t"} -> <<"f", "f">>
      [] cmd \in {"C", "c"} -> <<"f", "f", "f", "f", "f", "f">>
      [] cmd \in {"S", "Q", "s", "q"} -> <<"f", "f", "f", "f">>
      [] cmd \in {"A", "a"} -> <<"f", "f", "f", "b", "b", "f", "f">>
      [] cmd \in {"H", "V", "h", "v"} -> <<"f">>
      [] OTHER -> <<>>

\* getFloat() and getBool() one after the other: [values, i, threw]
RECURSIVE getParameters(_, _, _, _)
getParameters(str, k, kinds, values) ==
    IF kinds = <<>> THEN [values |-> values, i |-> k, threw |-> FALSE]
    ELSE Let(IF kinds[1] = "f" THEN matchFloat(str, k) ELSE matchBool(str, k),
             LAMBDA match :
                 IF match = <<>> THEN [values |-> values, i |-> k, threw |-> TRUE]
                 ELSE getParameters(str, match[1], Tail(kinds), Append(values, match[2])))

\* the command yielded: the upper-case commands take their points as vectors
yieldedCommand(cmd, v) ==
    CASE cmd \in {"M", "L", "T"} -> <<cmd, <<v[1], v[2]>>>>
      [] cmd = "C" -> <<cmd, <<v[1], v[2]>>, <<v[3], v[4]>>, <<v[5], v[6]>>>>
      [] cmd \in {"S", "Q"} -> <<cmd, <<v[1], v[2]>>, <<v[3], v[4]>>>>
      [] cmd = "A" -> <<cmd, v[1], v[2], v[3], v[4], v[5], <<v[6], v[7]>>>>
      [] cmd \in {"Z", "z"} -> <<"Z">>
      [] OTHER -> <<cmd>> \o v

IdleData ==
    /\ pathData = <<>>
    /\ dataIndex = 0
    /\ lastCmd = ""
    /\ parsed = <<>>
    /\ parseStatus = "idle"

\* M0,0  M0,0L10,10  M-1.5,.5l1e1,2.
DataHeads ==
    {<<"M", "0", ",", "0">>,
     <<"M", "0", ",", "0", "L", "1", "0", ",", "1", "0">>,
     <<"M", "-", "1", ".", "5", ",", ".", "5", "l", "1", "e", "1", ",", "2", ".">>}
DataTails == {"Z", "z", " ", "1", ",", "L"}
MaxTail == 3
MaxYielded == 6

InitData ==
    /\ pathData \in {head \o tail : head \in DataHeads,
                        tail \in UNION {[1..n -> DataTails] : n \in 0..MaxTail}}
    /\ dataIndex = 0
    /\ lastCmd = "M"
    /\ parsed = <<>>
    /\ parseStatus = "running"

\* one turn of the loop of lines 73-188: getCmd(), then the yield of the
\* command with its parameters, the return at eof, or the error of a
\* parameter that is not there.  The stream is cut after MaxYielded commands.
NextCommand ==
    /\ parseStatus = "running"
    /\ Len(parsed) < MaxYielded
    /\ \E c \in {getCmd(pathData, dataIndex, lastCmd)} :
           IF c.cmd = "eof"
           THEN /\ parseStatus' = "done"
                /\ UNCHANGED <<dataIndex, lastCmd, parsed>>
           ELSE \E r \in {getParameters(pathData, c.i, parameterKinds(c.cmd), <<>>)} :
                    /\ dataIndex' = r.i
                    /\ lastCmd' = IF c.cmd = "z" THEN "Z" ELSE c.cmd
                    /\ parseStatus' = IF r.threw THEN "threw" ELSE "running"
                    /\ parsed' = IF r.threw THEN parsed
                                 ELSE Append(parsed,
                                             [command |-> yieldedCommand(c.cmd, r.values),
                                              from |-> dataIndex, to |-> r.i,
                                              letter |-> c.i > dataIndex])
    /\ UNCHANGED pathData
    /\ UNCHANGED <<boolVars, flagVars, cmdVars, toVars, fvVars, callVars, qtVars, pairVars>>

NextData ==
    \/ NextCommand

(***************************************************************************)
(* The specification: a behaviour is one call of pathBoolean, one          *)
(* visitFace step followed by a predicate, one run of pathFromCommands,    *)
(* one run of pathToCommands or one run of findVertices                    *)
(***************************************************************************)
Init ==
    \/ InitBool /\ IdleFlag /\ IdleCmd /\ IdleTo /\ IdleFv /\ IdleCall /\ IdleQt /\ IdlePair /\ IdleData
    \/ IdleBool /\ InitFlag /\ IdleCmd /\ IdleTo /\ IdleFv /\ IdleCall /\ IdleQt /\ IdlePair /\ IdleData
    \/ IdleBool /\ IdleFlag /\ InitCmd /\ IdleTo /\ IdleFv /\ IdleCall /\ IdleQt /\ IdlePair /\ IdleData
    \/ IdleBool /\ IdleFlag /\ IdleCmd /\ InitTo /\ IdleFv /\ IdleCall /\ IdleQt /\ IdlePair /\ IdleData
    \/ IdleBool /\ IdleFlag /\ IdleCmd /\ IdleTo /\ InitFv /\ IdleCall /\ IdleQt /\ IdlePair /\ IdleData
    \/ IdleBool /\ IdleFlag /\ IdleCmd /\ IdleTo /\ IdleFv /\ InitCall /\ IdleQt /\ IdlePair /\ IdleData
    \/ IdleBool /\ IdleFlag /\ IdleCmd /\ IdleTo /\ IdleFv /\ IdleCall /\ InitQt /\ IdlePair /\ IdleData
    \/ IdleBool /\ IdleFlag /\ IdleCmd /\ IdleTo /\ IdleFv /\ IdleCall /\ IdleQt /\ InitPair /\ IdleData
    \/ IdleBool /\ IdleFlag /\ IdleCmd /\ IdleTo /\ IdleFv /\ IdleCall /\ IdleQt /\ IdlePair /\ InitData

Next ==
    \/ NextBool
    \/ NextFlag
    \/ NextCmd
    \/ NextTo
    \/ NextFv
    \/ NextCall
    \/ NextQt
    \/ NextPair
    \/ NextData

Spec == Init /\ [][Next]_vars

(***************************************************************************)
(* Properties                                                              *)
(***************************************************************************)
\* C1: called with both input paths empty, pathBoolean returns the empty
\* list without running any stage after splitAtIntersections; it returns
\* before it reads the operation or a fill rule, so for every one of them.
C1_EmptyInputsReturnEmptyList ==
    (a = <<>> /\ b = <<>> /\ pc \notin {"idle", "splitAtIntersections"}) =>
        /\ pc = "done"
        /\ result = <<>>
        /\ thrown = ""
        /\ majorGraph = EmptyMajor
        /\ minorGraph = EmptyMinor
        /\ dual = EmptyDual
        /\ nestingTrees = <<>>
        /\ aFillRule = "unread"
        /\ bFillRule = "unread"
        /\ op = "unread"

C1_Witness == a = <<>> /\ b = <<>> /\ pc = "done" /\ result = <<>>

\* C2: for Union, Difference, Intersection and Exclusion, whenever an input
\* path has a segment, pathBoolean returns a list of exactly one Path: the
\* call does not end in an error and the list it returns has length 1.
C2_ExactlyOnePath ==
    (a # <<>> \/ b # <<>>) =>
        /\ pc # "threw"
        /\ (pc = "done" /\ op \in {"Union", "Difference", "Intersection", "Exclusion"})
              => Len(result) = 1

\* the flags an operation selects, as the table of the specification lists them
SelectedFlags(operation) ==
    CASE operation = "Union" -> {1, 2, 3}
      [] operation = "Difference" -> {1}
      [] operation = "Intersection" -> {3}
      [] operation = "Exclusion" -> {1, 2}
      [] operation = "Division" -> {1, 3}
      [] operation = "Fracture" -> {1, 2, 3}

\* C3: the predicate of every operation selects a face exactly when the
\* face's flag is in the operation's row of the table, and no row holds flag
\* 0; the faces pathBoolean extracts from are selected by that table.
C3_SelectionTable ==
    /\ fpc = "done" =>
          /\ fFlag \in 0..3
          /\ fSelected = (fFlag \in SelectedFlags(fOp))
          /\ fFlag = 0 => ~fSelected
    /\ (pc = "done" /\ op \in {"Union", "Difference", "Intersection", "Exclusion"}) =>
          Range(selectedFaces) = {f \in 1..Len(dual.faces) :
                                     dual.faces[f].flag \in SelectedFlags(op)}
    /\ (pc = "done" /\ op \in {"Division", "Fracture"}) =>
          \A i \in 1..Len(emitted) : dual.faces[emitted[i]].flag \in SelectedFlags(op)

C3_Witness == fpc = "done" /\ fOp = "Division" /\ fFlag = 3 /\ fSelected

\* the bit a fill rule gives a winding count: NonZero 1 iff the count is not
\* 0, EvenOdd 1 iff the count is odd (the remainder is taken non-negative)
InsideBit(count, fillRule) ==
    IF fillRule = "NonZero" THEN (IF count # 0 THEN 1 ELSE 0)
    ELSE (IF count % 2 = 1 THEN 1 ELSE 0)

\* C4: for every winding count of either sign the fill rule gives one bit,
\* the face flag is flagA + 2 * flagB, and after flagFaces every face of the
\* dual graph has a flag in 0..3.
C4_FlagBits ==
    /\ fpc \in {"predicate", "done"} =>
          /\ fFlag = InsideBit(aCount, fRuleA) + 2 * InsideBit(bCount, fRuleB)
          /\ fFlag \in 0..3
    /\ pc \in {"select", "done"} =>
          \A f \in 1..Len(dual.faces) : dual.faces[f].flag \in 0..3

C4_Witness ==
    /\ fpc = "predicate"
    /\ aCount = -3 /\ fRuleA = "EvenOdd"
    /\ bCount = -1 /\ fRuleB = "EvenOdd"
    /\ fFlag = 3

\* the nodes of a nesting forest
RECURSIVE ForestNodes(_)
ForestNodes(trees) ==
    UNION {{trees[i]} \cup UNION {ForestNodes(trees[i].outgoingEdges[k].subtrees) :
                                     k \in 1..Len(trees[i].outgoingEdges)} :
           i \in 1..Len(trees)}

\* the child trees attached under a face, in order
ChildrenUnder(trees, face) ==
    IF \E n \in ForestNodes(trees) : \E k \in 1..Len(n.outgoingEdges) :
           n.outgoingEdges[k].face = face
    THEN LET n == CHOOSE n \in ForestNodes(trees) :
                      \E k \in 1..Len(n.outgoingEdges) : n.outgoingEdges[k].face = face
         IN  n.outgoingEdges[CHOOSE k \in 1..Len(n.outgoingEdges) :
                                 n.outgoingEdges[k].face = face].subtrees
    ELSE <<>>

\* the outer-face boundaries of a list of trees, one after the other
RECURSIVE OuterBoundaries(_, _)
OuterBoundaries(D, subtrees) ==
    IF subtrees = <<>> THEN <<>>
    ELSE faceBoundary(D, D.components[subtrees[1].component].outerFace, 1)
         \o OuterBoundaries(D, Tail(subtrees))

\* the faces of the components of the forest that are not the outer face of
\* their component
NonOuterFaces(D, trees) ==
    UNION {Range(D.components[n.component].vertices) \ {D.components[n.component].outerFace} :
           n \in ForestNodes(trees)}

\* C5: Division and Fracture return exactly one Path per face of the forest
\* that satisfies the predicate and is not the outer face of its component;
\* the Path is the face's boundary followed by the outer-face boundary of
\* every child component attached under the face.
C5_DumpFaces ==
    (pc = "done" /\ op \in {"Division", "Fracture"}) =>
        /\ Len(result) = Len(emitted)
        /\ Len(emitted) = Cardinality(Range(emitted))
        /\ Range(emitted) = {f \in NonOuterFaces(dual, nestingTrees) :
                                dual.faces[f].flag \in SelectedFlags(op)}
        /\ \A i \in 1..Len(result) :
              result[i] = faceBoundary(dual, emitted[i], 1)
                          \o OuterBoundaries(dual, ChildrenUnder(nestingTrees, emitted[i]))

\* a returned Path that has the boundary of a child component none of whose
\* faces is selected
C5_Witness ==
    /\ pc = "done"
    /\ op \in {"Division", "Fracture"}
    /\ \E i \in 1..Len(result) :
          /\ ChildrenUnder(nestingTrees, emitted[i]) # <<>>
          /\ Len(result[i]) > Len(faceBoundary(dual, emitted[i], 1))
          /\ \A f \in Range(dual.components[
                            ChildrenUnder(nestingTrees, emitted[i])[1].component].vertices) :
                 f \notin Range(emitted)

\* C6: when b is the same segment list as a and both use the same fill
\* rule, every edge of the major graph has parent mask 3, every face gets
\* flag 0 or 3, Difference and Exclusion select no face and return one empty
\* Path, and Union and Intersection select the same faces and return the
\* same boundary.
C6_Idempotence ==
    (a = b /\ a # <<>>) =>
        /\ pc \notin {"splitAtIntersections", "findVertices"} =>
              \A e \in 1..Len(majorGraph.edges) : majorGraph.edges[e].parent = 3
        /\ (pc \in {"select", "done"} /\ aFillRule = bFillRule) =>
              \A f \in 1..Len(dual.faces) : dual.faces[f].flag \in {0, 3}
        /\ (pc = "done" /\ aFillRule = bFillRule /\ op \in {"Difference", "Exclusion"}) =>
              selectedFaces = <<>> /\ result = <<(<<>>)>>
        /\ (pc = "done" /\ aFillRule = bFillRule /\ op = "Union") =>
              /\ selectedFaces = getSelectedFaces(dual, nestingTrees, "Intersection")
              /\ result = <<walkFaces(dual,
                                      getSelectedFaces(dual, nestingTrees, "Intersection"))>>
        /\ (pc = "done" /\ aFillRule = bFillRule /\ op = "Intersection") =>
              /\ selectedFaces = getSelectedFaces(dual, nestingTrees, "Union")
              /\ result = <<walkFaces(dual, getSelectedFaces(dual, nestingTrees, "Union"))>>

C6_Witness ==
    /\ a = b /\ a # <<>>
    /\ pc = "done" /\ aFillRule = bFillRule /\ op = "Union"
    /\ selectedFaces # <<>>
    /\ result[1] # <<>>
    /\ \E e \in 1..Len(majorGraph.edges) : majorGraph.edges[e].parent = 3

\* bit k (0 or 1) of a flag
FlagBit(flag, k) == (flag \div (2 ^ k)) % 2

\* the faces of the dual graph whose flag has bit k set
FacesWithBit(D, k) == {f \in 1..Len(D.faces) : FlagBit(D.faces[f].flag, k) = 1}

\* C7: when b is empty no face has bit 1 set, Intersection selects no face
\* and Union and Difference select exactly the faces with bit 0 set; when a
\* is empty no face has bit 0 set and Difference selects no face.
C7_EmptyIdentity ==
    /\ (b = <<>> /\ pc \in {"select", "done"}) =>
          /\ FacesWithBit(dual, 1) = {}
          /\ (pc = "done" /\ op = "Intersection") => selectedFaces = <<>>
          /\ (pc = "done" /\ op \in {"Union", "Difference"}) =>
                /\ Range(selectedFaces) = FacesWithBit(dual, 0)
                /\ Len(selectedFaces) = Cardinality(FacesWithBit(dual, 0))
    /\ (a = <<>> /\ pc \in {"select", "done"}) =>
          /\ FacesWithBit(dual, 0) = {}
          /\ (pc = "done" /\ op = "Difference") => selectedFaces = <<>>

C7_Witness ==
    /\ b = <<>> /\ a # <<>>
    /\ pc = "done" /\ op = "Difference"
    /\ selectedFaces # <<>>
    /\ Range(selectedFaces) = FacesWithBit(dual, 0)

\* a face of the arrangement, named by the set of the segments of its
\* boundary as they are walked
FaceKeys(D, faces) == {Range(faceBoundary(D, f, 1)) : f \in faces}

\* C8: for Union, Intersection and Exclusion, pathBoolean(a, fa, b, fb, op)
\* and pathBoolean(b, fb, a, fa, op) select the same set of faces of the
\* arrangement.
C8_Commutative ==
    (pc = "done" /\ op \in {"Union", "Intersection", "Exclusion"}) =>
        Let(pathBoolean(b, bFillRule, a, aFillRule, op),
            LAMBDA swapped :
                /\ swapped.thrown = ""
                /\ FaceKeys(swapped.dual, Range(swapped.selectedFaces))
                       = FaceKeys(dual, Range(selectedFaces)))

\* the outer faces of the components
OuterFaces(D) == {D.components[c].outerFace : c \in 1..Len(D.components)}

\* C9: the faces Fracture emits are the non-outer faces Union selects, the
\* faces Division emits are the non-outer faces Difference or Intersection
\* selects; each is emitted in exactly one Path and none has flag 0.
C9_Coverage ==
    (pc = "done" /\ op \in {"Division", "Fracture"}) =>
        /\ op = "Fracture" =>
              Range(emitted) = Range(getSelectedFaces(dual, nestingTrees, "Union"))
                                   \ OuterFaces(dual)
        /\ op = "Division" =>
              Range(emitted) =
                  (Range(getSelectedFaces(dual, nestingTrees, "Difference"))
                      \cup Range(getSelectedFaces(dual, nestingTrees, "Intersection")))
                  \ OuterFaces(dual)
        /\ Len(result) = Len(emitted)
        /\ \A i, j \in 1..Len(emitted) : emitted[i] = emitted[j] => i = j
        /\ \A i \in 1..Len(emitted) : dual.faces[emitted[i]].flag # 0

\* Division emits a face of flag 1 and a face of flag 3 and leaves out a
\* face of flag 2
C9_Witness ==
    /\ pc = "done" /\ op = "Division"
    /\ \E i, j \in 1..Len(emitted) :
          dual.faces[emitted[i]].flag = 1 /\ dual.faces[emitted[j]].flag = 3
    /\ \E f \in 1..Len(dual.faces) : dual.faces[f].flag = 2 /\ f \notin OuterFaces(dual)

isMoveTo(cmd) == cmd[1] \in {"M", "m"}

\* C10: pathFromCommands raises only for a segment-producing command that
\* occurs before any move-to or a close with no open sub-path, so only while
\* no move-to has been taken; a sequence that begins with a move-to never
\* raises.
C10_RaisesOnlyForNamedViolations ==
    cmdStatus = "threw" => \A i \in 1..Len(commands) : ~isMoveTo(commands[i])

(***************************************************************************)
(* The current point and the start of the open sub-path after a list of   *)
(* commands, by the rules of path data: a move-to sets both, a close       *)
(* returns the current point to the start, every other command ends at its *)
(* target; lower-case targets are offsets from the current point.          *)
(***************************************************************************)
RECURSIVE Resolve(_)
Resolve(cmds) ==
    IF cmds = <<>> THEN [current |-> <<0, 0>>, start |-> <<0, 0>>]
    ELSE LET before == Resolve(SubSeq(cmds, 1, Len(cmds) - 1))
             cmd == cmds[Len(cmds)]
             cur == before.current
             to(point) == [current |-> point, start |-> before.start]
         IN  CASE cmd[1] = "M" -> [current |-> cmd[2], start |-> cmd[2]]
               [] cmd[1] = "m" -> [current |-> <<cur[1] + cmd[2], cur[2] + cmd[3]>>,
                                   start |-> <<cur[1] + cmd[2], cur[2] + cmd[3]>>]
               [] cmd[1] \in {"Z", "z"} -> to(before.start)
               [] cmd[1] \in {"L", "T"} -> to(cmd[2])
               [] cmd[1] \in {"S", "Q"} -> to(cmd[3])
               [] cmd[1] = "C" -> to(cmd[4])
               [] cmd[1] = "A" -> to(cmd[7])
               [] cmd[1] = "H" -> to(<<cmd[2], cur[2]>>)
               [] cmd[1] = "V" -> to(<<cur[1], cmd[2]>>)
               [] cmd[1] \in {"l", "t"} -> to(<<cur[1] + cmd[2], cur[2] + cmd[3]>>)
               [] cmd[1] = "h" -> to(<<cur[1] + cmd[2], cur[2]>>)
               [] cmd[1] = "v" -> to(<<cur[1], cur[2] + cmd[2]>>)
               [] cmd[1] \in {"s", "q"} -> to(<<cur[1] + cmd[4], cur[2] + cmd[5]>>)
               [] cmd[1] = "c" -> to(<<cur[1] + cmd[6], cur[2] + cmd[7]>>)
               [] cmd[1] = "a" -> to(<<cur[1] + cmd[7], cur[2] + cmd[8]>>)

isClose(cmd) == cmd[1] \in {"Z", "z"}
HasMoveTo(cmds) == \E i \in 1..Len(cmds) : isMoveTo(cmds[i])

\* C11: once a move-to has been taken, a close yields exactly one line
\* segment from the current point to the target of the most recent move-to
\* and leaves the current point of pathFromCommands and of
\* toAbsoluteCommands at that sub-path start; a line-to that follows the
\* close, absolute or relative, starts at the sub-path start and a relative
\* one ends at the sub-path start plus its offset.
C11_CloseReturnsToSubpathStart ==
    [][(cmdStatus = "running" /\ Len(commands') = Len(commands) + 1 /\ HasMoveTo(commands))
       => LET cmd == commands'[Len(commands')]
              ref == Resolve(commands)
          IN  /\ isClose(cmd)
                  => /\ cmdStatus' = "running"
                     /\ segments' = Append(segments, <<"L", ref.current, ref.start>>)
                     /\ lastPoint' = ref.start
                     /\ absLastPoint' = ref.start
                     /\ firstPoint' = ref.start
                     /\ absFirstPoint' = ref.start
              /\ (isClose(commands[Len(commands)]) /\ cmd[1] \in {"L", "l"})
                  => /\ cmdStatus' = "running"
                     /\ segments' = Append(segments,
                                           <<"L", ref.start,
                                             IF cmd[1] = "L" THEN cmd[2]
                                             ELSE <<ref.start[1] + cmd[2],
                                                    ref.start[2] + cmd[3]>>>>)]_vars

\* a run M, L, Z, l: the close has drawn back to the move-to target, away
\* from the point the line-to had reached, and the relative line-to starts
\* at the move-to target
C11_Witness ==
    /\ cmdStatus = "running"
    /\ Len(commands) = 4
    /\ commands[1][1] = "M" /\ commands[2][1] = "L"
    /\ commands[3][1] = "Z" /\ commands[4][1] = "l"
    /\ Len(segments) = 3
    /\ segments[2] = <<"L", commands[2][2], commands[1][2]>>
    /\ commands[2][2] # commands[1][2]
    /\ segments[3][2] = commands[1][2]

\* the start point of segment i differs from the end point of the segment
\* before it by more than eps in some coordinate
JointApart(segs, i, eps) ==
    \/ Abs(segs[i][2][1] - segs[i - 1][Len(segs[i - 1])][1]) > eps
    \/ Abs(segs[i][2][2] - segs[i - 1][Len(segs[i - 1])][2]) > eps

\* the commands the claim describes for a list of segments
RECURSIVE ExpectedCommands(_, _, _)
ExpectedCommands(segs, i, eps) ==
    IF i > Len(segs) THEN <<>>
    ELSE (IF i = 1 \/ JointApart(segs, i, eps) THEN <<(<<"M", segs[i][2]>>)>> ELSE <<>>)
         \o <<drawingCommand(segs[i])>> \o ExpectedCommands(segs, i + 1, eps)

\* C12: pathToCommands emits a move before a segment exactly when the
\* segment is the first one or its start point differs from the previous
\* segment's end point by more than eps; when they differ by eps or less in
\* both coordinates no move is emitted.  It emits exactly one drawing
\* command per segment, in order, and never a close command.
C12_MoveExactlyWhenJointApart ==
    toStatus \in {"running", "done"}
    => toCommands = ExpectedCommands(toSegments, 1, toEps)

\* the major graph exists: findVertices has run
HasMajorGraph == pc \in {"computeMinor", "removeDanglingEdges", "sortOutgoingEdgesByAngle",
                         "computeDual", "computeNestingTree", "flagFaces", "select",
                         "done", "threw"}

\* C13: after findVertices every directed edge e of the major graph has a
\* twin, twin(twin(e)) = e, the twin's incidentVertices are those of e
\* reversed, its directionFlag is the opposite, and e and its twin carry the
\* same segment and the same parent mask, also when a later duplicate has
\* OR-ed parent bits into the pair; every edge is listed exactly once in the
\* outgoingEdges of its start vertex and in those of no other vertex.
C13_MajorTwinInvariant ==
    HasMajorGraph
    => \A e \in 1..Len(majorGraph.edges) :
          LET edge == majorGraph.edges[e]
          IN  /\ edge.twin \in 1..Len(majorGraph.edges)
              /\ edge.twin # e
              /\ majorGraph.edges[edge.twin].twin = e
              /\ majorGraph.edges[edge.twin].incidentVertices
                    = <<edge.incidentVertices[2], edge.incidentVertices[1]>>
              /\ majorGraph.edges[edge.twin].directionFlag = ~edge.directionFlag
              /\ majorGraph.edges[edge.twin].seg = edge.seg
              /\ majorGraph.edges[edge.twin].parent = edge.parent
              /\ \A v \in 1..Len(majorGraph.vertices) :
                    Cardinality({i \in 1..Len(majorGraph.vertices[v].outgoingEdges) :
                                    majorGraph.vertices[v].outgoingEdges[i] = e})
                        = IF v = edge.incidentVertices[1] THEN 1 ELSE 0

\* a and b share an edge drawn in the same direction: the pair that was kept
\* has parent 3, next to edges of a alone and of b alone
C13_Witness ==
    /\ HasMajorGraph
    /\ \E e \in 1..Len(majorGraph.edges) : majorGraph.edges[e].parent = 3
    /\ \E e \in 1..Len(majorGraph.edges) : majorGraph.edges[e].parent = 1
    /\ \E e \in 1..Len(majorGraph.edges) : majorGraph.edges[e].parent = 2

\* the dual graph exists: computeDual has produced its faces
HasDualFaces ==
    pc \in {"computeNestingTree", "flagFaces", "select", "done"}

\* minorToDualEdge of computeDual for the minor graph of the state
MinorToDual ==
    dualFaces(minorGraph, 1,
              [faces |-> <<>>, halfEdges |-> <<>>,
               minorToDualEdge |-> [e \in 1..Len(minorGraph.epool) |-> 0],
               error |-> ""]).minorToDualEdge

\* the place of half-edge h in the incidentEdges of its face, as a set
PlacesInFace(h) ==
    {i \in 1..Len(dual.faces[dual.halfEdges[h].incidentVertex].incidentEdges) :
        dual.faces[dual.halfEdges[h].incidentVertex].incidentEdges[i] = h}

\* nextEdge of the half-edge of minor edge e stays in the face of e and is
\* the half-edge that follows it cyclically in the face's incidentEdges
NextStaysInFace(toDual, e) ==
    LET h == toDual[e]
        incident == dual.faces[dual.halfEdges[h].incidentVertex].incidentEdges
    IN  \A i \in PlacesInFace(h) :
            toDual[getNextEdge(minorGraph, e)] = incident[(i % Len(incident)) + 1]

\* C14: for every face that computeDual makes from the pruned, angle-sorted
\* minor graph, nextEdge applied to a half-edge of the face gives the
\* half-edge that follows it in the face, cyclically, so that from any
\* half-edge the walk stays in the face, returns to its start and visits
\* every half-edge of the face once; every minor edge is a half-edge of
\* exactly one face, at exactly one place.
C14_FaceCycles ==
    HasDualFaces
    => Let(MinorToDual,
           LAMBDA toDual :
               \A k \in 1..Len(minorGraph.edges) :
                   /\ toDual[minorGraph.edges[k]] # 0
                   /\ Cardinality(PlacesInFace(toDual[minorGraph.edges[k]])) = 1
                   /\ \A f \in 1..Len(dual.faces) :
                         f # dual.halfEdges[toDual[minorGraph.edges[k]]].incidentVertex
                         => \A i \in 1..Len(dual.faces[f].incidentEdges) :
                               dual.faces[f].incidentEdges[i] # toDual[minorGraph.edges[k]]
                   /\ NextStaysInFace(toDual, minorGraph.edges[k]))

\* the vertices that the vertices of S reach over minor edges of g that carry
\* the parent bit p, without using edge e or its twin
RECURSIVE ReachedWithout(_, _, _, _)
ReachedWithout(g, p, e, S) ==
    LET T == S \cup {g.epool[x].incidentVertices[2] :
                        x \in {y \in Range(g.edges) :
                                  /\ y # e
                                  /\ y # g.epool[e].twin
                                  /\ bitAnd(g.epool[y].parent, p) # 0
                                  /\ g.epool[y].incidentVertices[1] \in S}}
    IN  IF T = S THEN S ELSE ReachedWithout(g, p, e, T)

\* edge e lies on a simple cycle of the edges of g that carry one of its
\* parent bits: its end reaches its start without e and its twin
OnSimpleCycle(g, e) ==
    \E p \in {1, 2} :
        /\ bitAnd(g.epool[e].parent, p) # 0
        /\ g.epool[e].incidentVertices[1]
               \in ReachedWithout(g, p, e, {g.epool[e].incidentVertices[2]})

\* C15: removeDanglingEdges retains a minor edge exactly when the edge lies
\* on a simple cycle of the edges that carry one of its parent bits; no
\* bridge is retained and no edge of such a cycle is removed.
C15_OnlyCycleEdgesRetained ==
    [][pc = "removeDanglingEdges"
       => \A e \in Range(minorGraph.edges) :
              e \in Range(minorGraph'.edges) <=> OnSimpleCycle(minorGraph, e)]_vars

\* the half of C15 that the pruning fulfils: no edge of a cycle is removed
C15_CycleEdgesRetained ==
    [][pc = "removeDanglingEdges"
       => \A e \in Range(minorGraph.edges) :
              OnSimpleCycle(minorGraph, e) => e \in Range(minorGraph'.edges)]_vars

\* the faces of the components of the forest
ForestFaces(D, trees) ==
    UNION {Range(D.components[n.component].vertices) : n \in ForestNodes(trees)}

\* what crossing half-edge e adds to the count of the input with parent bit
CountChange(e, bit) ==
    IF bitAnd(e.parent, bit) = 0 THEN 0 ELSE IF e.directionFlag THEN -1 ELSE 1

\* visit i of the history V enters a face across a half-edge of a face
\* visited before, with that face's counts changed by the half-edge
EnteredAcrossEdge(D, V, i) ==
    \E j \in 1..(i - 1) :
        \E k \in 1..Len(D.faces[V[j][1]].incidentEdges) :
            LET e == D.halfEdges[D.faces[V[j][1]].incidentEdges[k]]
            IN  /\ D.halfEdges[e.twin].incidentVertex = V[i][1]
                /\ V[i][2] = V[j][2] + CountChange(e, 1)
                /\ V[i][3] = V[j][3] + CountChange(e, 2)

\* the visit of face f in the history V
VisitOf(V, f) == V[CHOOSE i \in 1..Len(V) : V[i][1] = f]

\* C16: flagFaces visits every face of every component of the nesting forest
\* exactly once and gives it the flag of the counts it is visited with; the
\* outer face of a root component is visited with the counts 0, 0 and gets
\* flag 0; the outer face of a nested component is visited with the counts
\* of the face it hangs under and gets that face's flag; every other face
\* is entered across a half-edge e of a face visited before, with the A
\* count changed by -1 if e.directionFlag else +1 exactly when e.parent has
\* bit 0, and the B count likewise for bit 1.
C16_FlagPropagation ==
    pc \in {"select", "done"}
    => Let(visitForest(dual, nestingTrees, aFillRule, bFillRule).visits,
           LAMBDA V :
               /\ \A f \in ForestFaces(dual, nestingTrees) :
                     Cardinality({i \in 1..Len(V) : V[i][1] = f}) = 1
               /\ \A i \in 1..Len(V) :
                     /\ V[i][1] \in ForestFaces(dual, nestingTrees)
                     /\ dual.faces[V[i][1]].flag
                            = faceFlag(V[i][2], V[i][3], aFillRule, bFillRule)
                     /\ V[i][1] \notin OuterFaces(dual) => EnteredAcrossEdge(dual, V, i)
               /\ \A k \in 1..Len(nestingTrees) :
                     /\ VisitOf(V, dual.components[nestingTrees[k].component].outerFace)[2] = 0
                     /\ VisitOf(V, dual.components[nestingTrees[k].component].outerFace)[3] = 0
                     /\ dual.faces[dual.components[nestingTrees[k].component].outerFace].flag = 0
               /\ \A n \in ForestNodes(nestingTrees) :
                     \A k \in 1..Len(n.outgoingEdges) :
                         \A j \in 1..Len(n.outgoingEdges[k].subtrees) :
                             LET under == n.outgoingEdges[k].face
                                 outer == dual.components[
                                              n.outgoingEdges[k].subtrees[j].component].outerFace
                             IN  /\ VisitOf(V, outer)[2] = VisitOf(V, under)[2]
                                 /\ VisitOf(V, outer)[3] = VisitOf(V, under)[3]
                                 /\ dual.faces[outer].flag = dual.faces[under].flag)

\* a component hangs under a face of flag 1, and a face of the nested
\* component has flag 3
C16_Witness ==
    /\ pc = "done"
    /\ \E n \in ForestNodes(nestingTrees) :
          \E k \in 1..Len(n.outgoingEdges) :
              /\ dual.faces[n.outgoingEdges[k].face].flag = 1
              /\ \E f \in Range(dual.components[
                               n.outgoingEdges[k].subtrees[1].component].vertices) :
                    dual.faces[f].flag = 3

\* half-edge h has a selected face on its own side and an unselected face
\* on its twin's side
OnBoundary(D, faces, h) ==
    /\ D.halfEdges[h].incidentVertex \in faces
    /\ D.halfEdges[D.halfEdges[h].twin].incidentVertex \notin faces

\* the first half-edge on the boundary that is reached from edge by going to
\* the next edge of the twin at most fuel times, 0 if none is reached
RECURSIVE FirstOnBoundary(_, _, _, _)
FirstOnBoundary(D, faces, edge, fuel) ==
    IF OnBoundary(D, faces, edge) THEN edge
    ELSE IF fuel = 0 THEN 0
    ELSE FirstOnBoundary(D, faces, edgeToNext(D, D.halfEdges[edge].twin), fuel - 1)

\* the segments of the half-edges hs one after the other, each reversed if
\* the half-edge has the directionFlag
RECURSIVE SegmentsAlong(_, _)
SegmentsAlong(D, hs) ==
    IF hs = <<>> THEN <<>>
    ELSE (IF D.halfEdges[hs[1]].directionFlag
          THEN [i \in 1..Len(D.halfEdges[hs[1]].segments) |->
                   <<"L", D.halfEdges[hs[1]].segments[i][3], D.halfEdges[hs[1]].segments[i][2]>>]
          ELSE D.halfEdges[hs[1]].segments)
         \o SegmentsAlong(D, Tail(hs))

\* the dual graph has symmetric twins
SymmetricTwins(D) ==
    \A h \in 1..Len(D.halfEdges) :
        /\ D.halfEdges[h].twin \in 1..Len(D.halfEdges)
        /\ D.halfEdges[D.halfEdges[h].twin].twin = h

\* C17: over a dual graph with symmetric twins, for the set of faces an
\* operation selects, walkFaces ends and yields the segments of the
\* half-edges that have a selected face on their own side and an unselected
\* face on their twin's side, each half-edge exactly once and no other
\* half-edge; from the next edge of every walked half-edge the skipping by
\* next(twin(edge)) reaches a half-edge that is not removed, which is the
\* half-edge walked next or the start edge of the loop, a half-edge
\* walked before.
C17_BoundaryWalk ==
    (pc = "done" /\ op \in Operations \ {"Division", "Fracture"} /\ SymmetricTwins(dual))
    => Let(walkAll(dual, selectedFaces),
           LAMBDA w :
               /\ result = <<SegmentsAlong(dual, w.walked)>>
               /\ \A i, j \in 1..Len(w.walked) : w.walked[i] = w.walked[j] => i = j
               /\ Range(w.walked)
                     = {h \in 1..Len(dual.halfEdges) : OnBoundary(dual, Range(selectedFaces), h)}
               /\ \A i \in 1..Len(w.walked) :
                     LET next == FirstOnBoundary(dual, Range(selectedFaces),
                                     edgeToNext(dual, w.walked[i]), Len(dual.halfEdges))
                     IN  /\ next # 0
                         /\ \/ i < Len(w.walked) /\ next = w.walked[i + 1]
                            \/ \E j \in 1..i : next = w.walked[j])

\* Union walks the boundary of two overlapping squares: the half-edges
\* between the two selected faces are removed and skipped
C17_Witness ==
    /\ pc = "done" /\ op = "Union"
    /\ Len(selectedFaces) >= 3
    /\ \E h \in 1..Len(dual.halfEdges) :
          /\ dual.halfEdges[h].incidentVertex \in Range(selectedFaces)
          /\ dual.halfEdges[dual.halfEdges[h].twin].incidentVertex \in Range(selectedFaces)
          /\ dual.halfEdges[h].incidentVertex
                # dual.halfEdges[dual.halfEdges[h].twin].incidentVertex
    /\ Len(result[1]) >= 8

\* the major edges from edge to last through vertices of degree 2, at most
\* fuel of them after edge
RECURSIVE MajorChain(_, _, _, _)
MajorChain(G, edge, last, fuel) ==
    IF edge = last \/ fuel = 0 \/ getOrder(G.vertices[G.edges[edge].incidentVertices[2]]) # 2
    THEN <<edge>>
    ELSE <<edge>> \o MajorChain(G, otherEdge(G, G.edges[edge].incidentVertices[2], edge),
                                last, fuel - 1)

\* the chain of major edges of a minor edge, from the major edge it starts
\* with to the major edge it ends with
ChainOf(G, minorEdge) == MajorChain(G, minorEdge.id[1], minorEdge.id[2], Len(G.edges))

\* the major vertices inside a chain
InteriorOf(G, chain) == {G.edges[chain[i]].incidentVertices[2] : i \in 1..(Len(chain) - 1)}

\* the pure cycles that pass the point of a major vertex
CyclesThrough(G, m, v) ==
    {c \in 1..Len(m.cycles) :
        \E i \in 1..Len(m.cycles[c].segments) :
            \/ m.cycles[c].segments[i][2] = G.vertices[v].point
            \/ m.cycles[c].segments[i][3] = G.vertices[v].point}

\* a minor edge runs between major vertices of degree other than 2 along
\* major edges of its own parent and directionFlag
ChainIsUniform(G, minorEdge) ==
    LET chain == ChainOf(G, minorEdge)
    IN  /\ chain[Len(chain)] = minorEdge.id[2]
        /\ getOrder(G.vertices[G.edges[chain[1]].incidentVertices[1]]) # 2
        /\ getOrder(G.vertices[G.edges[chain[Len(chain)]].incidentVertices[2]]) # 2
        /\ minorEdge.segments = [i \in 1..Len(chain) |-> G.edges[chain[i]].seg]
        /\ \A i \in 1..Len(chain) :
              /\ G.edges[chain[i]].parent = minorEdge.parent
              /\ G.edges[chain[i]].directionFlag = minorEdge.directionFlag

\* the twin of a minor edge is there and its chain is the chain of the edge
\* backwards, of the twins of its major edges
TwinIsReversedChain(G, m, e) ==
    /\ m.epool[e].twin \in 1..Len(m.epool)
    /\ m.epool[m.epool[e].twin].twin = e
    /\ LET chain == ChainOf(G, m.epool[e])
           back == ChainOf(G, m.epool[m.epool[e].twin])
       IN  /\ Len(back) = Len(chain)
           /\ \A i \in 1..Len(chain) : back[i] = G.edges[chain[Len(chain) + 1 - i]].twin

\* a major vertex of degree 2 is inside the chains of exactly one minor edge
\* and its twin and on no pure cycle, or inside no chain and on exactly one
\* pure cycle
DegreeTwoCovered(G, m, v) ==
    LET through == {e \in 1..Len(m.epool) : v \in InteriorOf(G, ChainOf(G, m.epool[e]))}
    IN  \/ /\ CyclesThrough(G, m, v) = {}
           /\ \E e \in through : through = {e, m.epool[e].twin} /\ m.epool[e].twin # e
        \/ /\ through = {}
           /\ Cardinality(CyclesThrough(G, m, v)) = 1

MinorChains(G, m) ==
    /\ \A e \in 1..Len(m.epool) : ChainIsUniform(G, m.epool[e]) /\ TwinIsReversedChain(G, m, e)
    /\ \A v \in 1..Len(G.vertices) : getOrder(G.vertices[v]) = 2 => DegreeTwoCovered(G, m, v)

\* C18: for every major graph, which has the twin invariant, every minor
\* edge that computeMinor makes starts and ends at a major vertex of degree
\* other than 2, has a twin whose chain is the same major edges in the
\* opposite direction, and has the parent and the directionFlag of every
\* major edge of its chain; every major vertex of degree 2 is inside exactly
\* one chain and its twin, or on exactly one pure cycle.
C18_MinorChains ==
    pc = "removeDanglingEdges" => MinorChains(majorGraph, minorGraph)

\* parent and directionFlag do not change at a major vertex of degree 2
UniformAtDegreeTwo(G) ==
    \A v \in 1..Len(G.vertices) :
        getOrder(G.vertices[v]) = 2
        => LET out == G.edges[G.vertices[v].outgoingEdges[1]]
               in == G.edges[G.edges[G.vertices[v].outgoingEdges[2]].twin]
           IN  out.parent = in.parent /\ out.directionFlag = in.directionFlag

\* C18 for the major graphs in which parent and directionFlag do not change
\* at a vertex of degree 2
C18_MinorChainsOfUniformGraph ==
    (pc = "removeDanglingEdges" /\ UniformAtDegreeTwo(majorGraph))
    => MinorChains(majorGraph, minorGraph)

\* two segments have coincident geometry, drawn in the same or in opposite
\* directions
Coincident(s, t) ==
    \/ segmentsEqual(s, t, EpsPointInv)
    \/ segmentsEqual(s, reversePathSegment(t), EpsPointInv)

\* C19: of the split edges that connect the same pair of vertices with
\* coincident geometry, whether drawn from u to v or from v to u, the major
\* graph keeps one twinned pair, and both directed edges of the pair carry
\* the parents of all of them; no two retained pairs between the same
\* vertices have equal segments.
C19_DuplicatesAnyDirection ==
    HasMajorGraph
    => /\ \A e, f \in 1..Len(majorGraph.edges) :
             (/\ e < f
              /\ ~majorGraph.edges[e].directionFlag
              /\ ~majorGraph.edges[f].directionFlag
              /\ {majorGraph.edges[e].incidentVertices[1], majorGraph.edges[e].incidentVertices[2]}
                    = {majorGraph.edges[f].incidentVertices[1],
                       majorGraph.edges[f].incidentVertices[2]})
             => ~Coincident(majorGraph.edges[e].seg, majorGraph.edges[f].seg)
       /\ \A i \in 1..Len(splitEdges) :
             \A e \in 1..Len(majorGraph.edges) :
                 Coincident(majorGraph.edges[e].seg, splitEdges[i].seg)
                 => bitAnd(majorGraph.edges[e].parent, splitEdges[i].parent)
                        = splitEdges[i].parent

\* the part of C19 that findVertices fulfils: duplicates drawn in the same
\* direction are merged
C19_DuplicatesSameDirection ==
    HasMajorGraph
    => /\ \A e, f \in 1..Len(majorGraph.edges) :
             (/\ e < f
              /\ ~majorGraph.edges[e].directionFlag
              /\ ~majorGraph.edges[f].directionFlag
              /\ majorGraph.edges[e].incidentVertices = majorGraph.edges[f].incidentVertices)
             => ~segmentsEqual(majorGraph.edges[e].seg, majorGraph.edges[f].seg, EpsPointInv)
       /\ \A i \in 1..Len(splitEdges) :
             \A e \in 1..Len(majorGraph.edges) :
                 segmentsEqual(majorGraph.edges[e].seg, splitEdges[i].seg, EpsPointInv)
                 => bitAnd(majorGraph.edges[e].parent, splitEdges[i].parent)
                        = splitEdges[i].parent

\* the two endpoints of the segment are at the same vertex of the graph
SameVertex(g, seg) ==
    findVertex(g.vertices, seg[2]) = findVertex(g.vertices, seg[Len(seg)])

\* the edge is in the graph: a forward edge between the vertices of its
\* endpoints has an equal segment and its parent
KeptAsEdge(g, edge) ==
    \E e \in 1..Len(g.edges) :
        /\ ~g.edges[e].directionFlag
        /\ g.edges[e].seg = edge.seg
        /\ g.edges[e].incidentVertices
              = <<findVertex(g.vertices, edge.seg[2]),
                  findVertex(g.vertices, edge.seg[Len(edge.seg)])>>
        /\ bitAnd(g.edges[e].parent, edge.parent) = edge.parent
        /\ g.edges[g.edges[e].twin].seg = edge.seg

\* a line; a cubic with the first control point at the start and the second
\* at the end; a quadratic with the control point at the start
DegenerateCurve(seg) ==
    \/ seg[1] = "L"
    \/ seg[1] = "C" /\ seg[3] = seg[2] /\ seg[4] = seg[5]
    \/ seg[1] = "Q" /\ seg[3] = seg[2]

Probed == fn = "probe" /\ callStatus = "returned"

\* one of the two edges ends, within point_eps, where the other starts
HeadToTail(e, c) ==
    \/ vectorsEqual(getEndPoint(c.seg), getStartPoint(e.seg), EpsPointInv)
    \/ vectorsEqual(getStartPoint(c.seg), getEndPoint(e.seg), EpsPointInv)

\* the two edges have an endpoint in common within point_eps
SharesEndpoint(e, c) ==
    \E x \in {getStartPoint(e.seg), getEndPoint(e.seg)} :
        \E y \in {getStartPoint(c.seg), getEndPoint(c.seg)} :
            vectorsEqual(x, y, EpsPointInv)

SplitDone == fn = "split" /\ callStatus = "returned"

\* the recorded parameters in ascending numerical order
RECURSIVE Ascending(_)
Ascending(s) ==
    IF s = <<>> THEN <<>>
    ELSE Let(CHOOSE i \in 1..Len(s) : \A k \in 1..Len(s) : ~RatLess(s[k], s[i]),
             LAMBDA i : <<s[i]>> \o Ascending(SubSeq(s, 1, i - 1) \o SubSeq(s, i + 1, Len(s))))

\* the parameters of `sorted` from j on that lie strictly between param_eps
\* and 1 - param_eps and more than param_eps after the one applied before
RECURSIVE ToApply(_, _, _)
ToApply(sorted, j, applied) ==
    IF j > Len(sorted) THEN <<>>
    ELSE IF /\ GtEps(sorted[j], EpsParamInv)
            /\ GtEps(RatSub(RatOne, sorted[j]), EpsParamInv)
            /\ GtEps(RatSub(sorted[j], applied), EpsParamInv)
         THEN <<sorted[j]>> \o ToApply(sorted, j + 1, sorted[j])
         ELSE ToApply(sorted, j + 1, applied)

\* C22: the split parameters of an edge are applied in ascending numerical
\* order, also when some are below 1e-6: every recorded t strictly between
\* param_eps and 1 - param_eps that is more than param_eps from the one
\* applied before it is the end of a fragment, and the edge is replaced by
\* (applied splits + 1) fragments that keep its parent.
C22_SplitsAppliedAscending ==
    SplitDone =>
        /\ \A t \in Range(ToApply(Ascending(args[2]), 1, RatZero)) :
               \E k \in 1..(Len(ret) - 1) : ret[k].upTo = t
        /\ \A k \in 1..(Len(ret) - 1) :
               /\ ret[k].upTo \in Range(args[2])
               /\ RatLess(ret[k].upTo, ret[k + 1].upTo)
        /\ ret[Len(ret)].upTo = RatOne
        /\ \A k \in 1..Len(ret) : ret[k].parent = args[1].parent

\* the same for the lists without a parameter below 1e-6
C22_SplitsAppliedAscendingAboveMillionth ==
    (SplitDone /\ \A k \in 1..Len(args[2]) :
                     args[2][k][1] = 0 \/ ~LtEps(args[2][k], 1000000)) =>
        /\ \A t \in Range(ToApply(Ascending(args[2]), 1, RatZero)) :
               \E k \in 1..(Len(ret) - 1) : ret[k].upTo = t
        /\ \A k \in 1..(Len(ret) - 1) :
               /\ ret[k].upTo \in Range(args[2])
               /\ RatLess(ret[k].upTo, ret[k + 1].upTo)
        /\ ret[Len(ret)].upTo = RatOne
        /\ \A k \in 1..Len(ret) : ret[k].parent = args[1].parent

(***************************************************************************)
(* C24                                                                     *)
(***************************************************************************)
Found == qtTree # <<>> /\ qtFound # <<>>

\* the values of the insert calls that returned true with a box overlapping Q
AcceptedOverlapping(Q) ==
    {qtInserts[k].value : k \in {k \in 1..Len(qtInserts) :
        qtInserts[k].accepted /\ boundingBoxesOverlap(qtInserts[k].boundingBox, Q)}}

\* boxes x and y have a point in common that lies in the tree's box
MeetInTree(x, y) ==
    /\ Max(Max(x.left, y.left), qtTree.boundingBox.left)
           <= Min(Min(x.right, y.right), qtTree.boundingBox.right)
    /\ Max(Max(x.top, y.top), qtTree.boundingBox.top)
           <= Min(Min(x.bottom, y.bottom), qtTree.boundingBox.bottom)

\* the boxes a tree stores, in all of its nodes
RECURSIVE StoredPairs(_)
StoredPairs(tree) ==
    Range(tree.pairs)
        \cup UNION {StoredPairs(tree.subtrees[i]) : i \in 1..Len(tree.subtrees)}

RECURSIVE NodesHolding(_, _)
NodesHolding(tree, value) ==
    (IF \E k \in 1..Len(tree.pairs) : tree.pairs[k][2] = value THEN 1 ELSE 0)
        + (IF tree.subtrees = <<>> THEN 0
           ELSE NodesHolding(tree.subtrees[1], value) + NodesHolding(tree.subtrees[2], value)
                + NodesHolding(tree.subtrees[3], value) + NodesHolding(tree.subtrees[4], value))

\* C24: after any sequence of inserts, find(Q) returns exactly the inserted
\* values that have a stored box overlapping Q, each once: none whose box
\* misses Q and every one whose insert returned true and whose box
\* overlaps Q, whatever the capacity, the depth and the subdivisions.
C24_FindReturnsOverlapping ==
    Found =>
        /\ Range(qtFound[1].set) = AcceptedOverlapping(qtFound[1].boundingBox)
        /\ Cardinality(Range(qtFound[1].set)) = Len(qtFound[1].set)

\* The same for the boxes as far as they lie within the tree's box: find(Q)
\* returns, each once, exactly the values accepted by insert whose box
\* and Q have a point in common within the tree's box.
C24_FindReturnsOverlappingWithinTree ==
    Found =>
        /\ Range(qtFound[1].set) =
               {v \in AcceptedOverlapping(qtFound[1].boundingBox) :
                   \E k \in 1..Len(qtInserts) :
                       /\ qtInserts[k].value = v
                       /\ MeetInTree(qtInserts[k].boundingBox, qtFound[1].boundingBox)}
        /\ Cardinality(Range(qtFound[1].set)) = Len(qtFound[1].set)
        /\ \A k \in 1..Len(qtInserts) :
               qtInserts[k].accepted <=>
                   <<qtInserts[k].boundingBox, qtInserts[k].value>> \in StoredPairs(qtTree)

\* a value stored in several nodes of a subdivided tree was found
C24_FoundInSeveralNodes ==
    /\ Found
    /\ \E v \in Range(qtFound[1].set) : NodesHolding(qtTree, v) > 1

(***************************************************************************)
(* C23                                                                     *)
(***************************************************************************)
BoxesOverlap(i, j) ==
    boundingBoxesOverlap(pathSegmentBoundingBox(withBoundingBox[i].seg),
                         pathSegmentBoundingBox(withBoundingBox[j].seg))

\* C23: every unordered pair of distinct edges whose bounding boxes overlap
\* is given to pathSegmentIntersection exactly once, when the later of the
\* two is probed and not yet in the tree; no pair is tested twice, also when
\* an edge is stored in several nodes of the tree, and no edge is tested
\* against itself.
C23_EachPairTestedOnce ==
    withBoundingBox # <<>> =>
        /\ \A k \in 1..Len(tested) :
               /\ tested[k][2] < tested[k][1]
               /\ tested[k][1] < probeIndex
               /\ BoxesOverlap(tested[k][1], tested[k][2])
        /\ \A k \in 1..Len(tested) : \A m \in 1..Len(tested) :
               {tested[k][1], tested[k][2]} = {tested[m][1], tested[m][2]} => k = m
        /\ \A i \in 1..(probeIndex - 1) : \A j \in 1..(i - 1) :
               BoxesOverlap(i, j) => \E k \in 1..Len(tested) : tested[k] = <<i, j>>

\* the first loop has ended with a subdivided tree, and an edge stored in
\* several of its nodes was tested against a later edge
C23_Witness ==
    /\ withBoundingBox # <<>>
    /\ probeIndex > Len(withBoundingBox)
    /\ edgeTree.subtrees # <<>>
    /\ \E k \in 1..Len(tested) : NodesHolding(edgeTree, tested[k][2]) > 1

\* the edges returned edge by edge are those of splitAtIntersections
SplitAtIntersectionsAgrees ==
    newEdges # <<>> => newEdges[1] = splitAtIntersections(withBoundingBox).edges

(***************************************************************************)
(* C25                                                                     *)
(***************************************************************************)
Nesting == fn = "computeNestingTree"
Nested == Nesting /\ callStatus = "returned"

\* the components of the nodes of a forest, one entry for every node
RECURSIVE NodeComponents(_)
RECURSIVE NodeComponentsUnder(_)
NodeComponentsUnder(outgoingEdges) ==
    IF outgoingEdges = <<>> THEN <<>>
    ELSE NodeComponents(outgoingEdges[1].subtrees)
         \o NodeComponentsUnder(Tail(outgoingEdges))
NodeComponents(trees) ==
    IF trees = <<>> THEN <<>>
    ELSE <<trees[1].component>> \o NodeComponentsUnder(trees[1].outgoingEdges)
         \o NodeComponents(Tail(trees))

\* the trees attached to a node under the face f, <<>> if there are none
SubtreesUnder(node, f) ==
    IF entryOf(node.outgoingEdges, f) = 0 THEN <<>>
    ELSE node.outgoingEdges[entryOf(node.outgoingEdges, f)].subtrees

\* component c is a child of component p under the face f
IsChildUnder(trees, c, p, f) ==
    \E n \in ForestNodes(trees) :
        /\ n.component = p
        /\ \E k \in 1..Len(SubtreesUnder(n, f)) : SubtreesUnder(n, f)[k].component = c

\* `now` is `old` after insert(old, new), new placed at the level of `now`
\* or below it: where it was placed no tree of the level encloses it, the
\* trees of the level it encloses are its children, under the face they are
\* in, and the other trees of the level are unchanged next to it
RECURSIVE AdoptedWherePlaced(_, _, _, _)
AdoptedWherePlaced(D, old, now, new) ==
    IF \E i \in 1..Len(now) : now[i].component = new
    THEN LET node == now[CHOOSE i \in 1..Len(now) : now[i].component = new]
         IN  /\ \A k \in 1..Len(old) : testInclusion(D, new, old[k].component) = 0
             /\ \A k \in 1..Len(old) :
                    IF testInclusion(D, old[k].component, new) # 0
                    THEN old[k] \in Range(SubtreesUnder(node,
                                          testInclusion(D, old[k].component, new)))
                    ELSE old[k] \in Range(now)
             /\ Len(NodeComponents(now)) = Len(NodeComponents(old)) + 1
    ELSE /\ Len(now) = Len(old)
         /\ \E i \in 1..Len(now) :
                /\ \A j \in 1..Len(now) : j # i => now[j] = old[j]
                /\ now[i].component = old[i].component
                /\ testInclusion(D, new, now[i].component) # 0
                /\ \A f \in {e.face : e \in Range(now[i].outgoingEdges)
                                             \cup Range(old[i].outgoingEdges)} :
                       IF f = testInclusion(D, new, now[i].component)
                       THEN AdoptedWherePlaced(D, SubtreesUnder(old[i], f),
                                               SubtreesUnder(now[i], f), new)
                       ELSE SubtreesUnder(now[i], f) = SubtreesUnder(old[i], f)

\* C25 as stated: after all components are inserted, in any order, every
\* component is in exactly one node; a component is a child under face f of
\* another iff the inclusion test places it inside f; a new component that
\* no tree of its level encloses takes the trees of the level it encloses
\* as children and leaves the others as siblings.
C25_NestingForest ==
    /\ Nested =>
           /\ \A c \in 1..Len(args[1].components) :
                  Cardinality({k \in 1..Len(NodeComponents(ret.trees)) :
                                  NodeComponents(ret.trees)[k] = c}) = 1
           /\ \A c \in 1..Len(args[1].components) :
                  \A q \in 1..Len(args[1].components) \ {c} :
                      \A f \in Range(args[1].components[q].vertices) :
                          IsChildUnder(ret.trees, c, q, f) <=>
                              testInclusion(args[1], c, q) = f
    /\ (Nesting /\ ret.inserted > 0) =>
           AdoptedWherePlaced(args[1], ret.before, ret.trees, ret.inserted)

\* C25, amended: the same with the children being the components the
\* inclusion test places inside f with no third component in between.
C25_NestingForestOfDirectInclusions ==
    /\ Nested =>
           /\ \A c \in 1..Len(args[1].components) :
                  Cardinality({k \in 1..Len(NodeComponents(ret.trees)) :
                                  NodeComponents(ret.trees)[k] = c}) = 1
           /\ \A c \in 1..Len(args[1].components) :
                  \A q \in 1..Len(args[1].components) \ {c} :
                      \A f \in Range(args[1].components[q].vertices) :
                          IsChildUnder(ret.trees, c, q, f) <=>
                              /\ testInclusion(args[1], c, q) = f
                              /\ ~\E m \in 1..Len(args[1].components) \ {c, q} :
                                     /\ testInclusion(args[1], c, m) # 0
                                     /\ testInclusion(args[1], m, q) # 0
    /\ (Nesting /\ ret.inserted > 0) =>
           AdoptedWherePlaced(args[1], ret.before, ret.trees, ret.inserted)

\* three components lie one inside the other, the outermost was inserted
\* after the innermost and before the one in between, which adopted the
\* innermost below the root
C25_Witness ==
    /\ Nested
    /\ \E c \in 1..Len(args[1].components) : \E m \in 1..Len(args[1].components) :
           \E q \in 1..Len(args[1].components) :
               /\ c < q /\ q < m
               /\ testInclusion(args[1], c, m) # 0
               /\ testInclusion(args[1], m, q) # 0
               /\ IsChildUnder(ret.trees, c, m, testInclusion(args[1], c, m))
               /\ IsChildUnder(ret.trees, m, q, testInclusion(args[1], m, q))

(***************************************************************************)
(* C26                                                                     *)
(***************************************************************************)
RayTested == fn = "ray" /\ callStatus = "returned"
Counted(flags) == Cardinality({k \in 1..Len(flags) : flags[k]})

\* C26: of two intervals (a, p) and (p, c) that meet on the ray's line y = p
\* exactly one is counted when a and c are on opposite sides of p, none or
\* both when they are on the same side; an interval with both ends equal
\* to p is never counted; and the bounding-box test passes every line
\* segment that lineSegmentIntersectsHorizontalRay counts.
C26_HalfOpenRayRule ==
    RayTested =>
        /\ args[2][2] = args[4][2] =>
               /\ (args[1][2] < args[4][2] /\ args[3][2] > args[4][2]) =>
                      Counted(ret.intervals) = 1
               /\ (args[1][2] > args[4][2] /\ args[3][2] < args[4][2]) =>
                      Counted(ret.intervals) = 1
               /\ (args[1][2] < args[4][2] /\ args[3][2] < args[4][2]) =>
                      Counted(ret.intervals) \in {0, 2}
               /\ (args[1][2] > args[4][2] /\ args[3][2] > args[4][2]) =>
                      Counted(ret.intervals) \in {0, 2}
               /\ args[1][2] = args[4][2] => ~ret.intervals[1]
               /\ args[3][2] = args[4][2] => ~ret.intervals[2]
        /\ ret.segment => ret.boundingBox

\* a polyline crossed the ray's line at its middle point, to the right of
\* the ray's start: one interval and the first segment were counted
C26_Witness ==
    /\ RayTested
    /\ args[2][2] = args[4][2]
    /\ args[1][2] < args[4][2]
    /\ args[3][2] > args[4][2]
    /\ Counted(ret.intervals) = 1
    /\ ret.segment
    /\ ret.boundingBox

(***************************************************************************)
(* C27                                                                     *)
(***************************************************************************)
Parsing == parseStatus \in {"running", "done", "threw"}

\* C27: commandsFromPathData yields a finite stream for every finite input:
\* every command yielded has consumed at least one character, also after a
\* close command that is followed by whitespace or other characters, so
\* there are no more commands than characters.
C27_EveryCommandConsumes ==
    Parsing =>
        /\ \A k \in 1..Len(parsed) : parsed[k].to > parsed[k].from
        /\ Len(parsed) <= Len(pathData)

\* the same for the commands other than a close command repeated without a
\* letter of its own
C27_EveryCommandButRepeatedCloseConsumes ==
    Parsing =>
        \A k \in 1..Len(parsed) :
            parsed[k].letter \/ parsed[k].command # <<"Z">> =>
                parsed[k].to > parsed[k].from

(***************************************************************************)
(* C30                                                                     *)
(***************************************************************************)
\* the command letters of a string in order, z as Z
LettersOf(str) ==
    Let(SelectSeq(str, LAMBDA c : c \in CommandLetters),
        LAMBDA letters : [k \in 1..Len(letters) |->
                             IF letters[k] = "z" THEN "Z" ELSE letters[k]])

\* the commands yielded for a letter of their own, in order
YieldedForLetters ==
    Let(SelectSeq(parsed, LAMBDA y : y.letter),
        LAMBDA ys : [k \in 1..Len(ys) |-> ys[k].command[1]])

\* C30: when commandsFromPathData returns, it has yielded exactly one command
\* for every command letter of d, in order, also for a close letter that is
\* the last character and follows a number without a separator.  (A string
\* that ends in a letter whose parameters are missing is left aside.)
C30_OneCommandPerLetter ==
    (parseStatus = "done" /\ pathData[Len(pathData)] \notin CommandLetters \ {"Z", "z"}) =>
        YieldedForLetters = LettersOf(pathData)

\* the same for the letters before the last character of d
C30_OneCommandPerLetterBeforeLast ==
    parseStatus = "done" =>
        /\ dataIndex >= Len(pathData) - 1
        /\ YieldedForLetters = LettersOf(SubSeq(pathData, 1, dataIndex))

(***************************************************************************)
(* Bounding intervals of Bezier segments                                   *)
(***************************************************************************)
Bounded(name) == fn = name /\ callStatus = "returned"
SampleParameters ==
    {<<0, 1>>, <<1, 4>>, <<1, 3>>, <<1, 2>>, <<2, 3>>, <<3, 4>>, <<1, 1>>}
Within(x, interval) == ~RatLess(x, interval[1]) /\ ~RatLess(interval[2], x)
CurveValue(t) ==
    IF fn = "cubicBoundingInterval"
    THEN evalCubic1d(<<args[1], 1>>, <<args[2], 1>>, <<args[3], 1>>, <<args[4], 1>>, t)
    ELSE evalQuadratic1d(<<args[1], 1>>, <<args[2], 1>>, <<args[3], 1>>, t)
LeadingCoefficient == -args[1] + 3 * args[2] - 3 * args[3] + args[4]

\* C29: the interval returned for a coordinate of a cubic or quadratic Bezier
\* segment contains the value of the curve at every parameter in [0, 1],
\* also for a cubic whose leading derivative coefficient is zero.
C29_BoundingIntervalContainsCurve ==
    (Bounded("cubicBoundingInterval") \/ Bounded("quadraticBoundingInterval"))
        => \A t \in SampleParameters : Within(CurveValue(t), ret)

\* the same for the quadratics and for the cubics whose leading derivative
\* coefficient is not zero
C29_BoundingIntervalContainsCurveUnlessDegenerate ==
    (\/ Bounded("quadraticBoundingInterval")
     \/ Bounded("cubicBoundingInterval") /\ LeadingCoefficient # 0)
        => \A t \in SampleParameters : Within(CurveValue(t), ret)

(***************************************************************************)
(* Arcs                                                                    *)
(***************************************************************************)
Sampled == fn = "samplePathSegmentAt" /\ callStatus = "returned"
ArcSplit == fn = "splitArcSegmentAt" /\ callStatus = "returned"
At(p) == [fixed |-> p, turned |-> <<0, 0>>, by |-> 0]
NonZeroRadii == args[1][3] # 0 /\ args[1][4] # 0
SampledAtEnds ==
    /\ args[2] = <<0, 1>> => ret = At(args[1][2])
    /\ args[2] = <<1, 1>> => ret = At(args[1][8])
FragmentsKeepEnds ==
    /\ ret[1][2] = At(args[1][2])
    /\ ret[2][8] = At(args[1][8])
    /\ ret[1][8] = ret[2][2]

\* C28: for every arc with non-zero radii and any rotation phi, given in
\* degrees, sampling at t = 0 and at t = 1 gives the start and the end point
\* of the arc, and the two fragments of a split start and end at them.
C28_ArcRotationInDegrees ==
    /\ Sampled /\ NonZeroRadii => SampledAtEnds
    /\ ArcSplit /\ NonZeroRadii => FragmentsKeepEnds

\* the same for the arcs that are not rotated
C28_ArcUnrotated ==
    /\ Sampled /\ NonZeroRadii /\ args[1][5] = 0 => SampledAtEnds
    /\ ArcSplit /\ NonZeroRadii /\ args[1][5] = 0 => FragmentsKeepEnds

====
